---- MODULE Spec2Model ----
(***************************************************************************)
(* Camera with optional refractive interface (colmap/scene/camera.cc):     *)
(* configuration mutators, rescaling and per-pixel virtual-camera          *)
(* synthesis.                                                              *)
(*                                                                         *)
(* A C++ double is modelled as an exact extended rational [n, d]: d > 0    *)
(* is the finite value n/d in lowest terms, 1/0 is +inf, -1/0 is -inf and  *)
(* 0/0 is NaN (one NaN, equal to itself as a stored value).  Rounding of   *)
(* the binary format is not modelled.                                      *)
(***************************************************************************)
EXTENDS Integers, Sequences, FiniteSets, TLC

VARIABLES camera, status, last, steps,
          virtual_cameras, virtual_from_reals, svd_axis,
          pc, eval_args, noise, trial, datasets, gen, errors, estimate, stats,
          file, log,
          testbed, recon, extra_image_ids, console, output

camVars == <<camera, status, last, steps>>
virtVars == <<virtual_cameras, virtual_from_reals, svd_axis>>
harnessVars == <<pc, eval_args, noise, trial, datasets, gen, errors, estimate,
                 stats, file, log>>
testbedVars == <<testbed, recon, extra_image_ids, console, output>>
vars == <<camera, status, last, steps,
          virtual_cameras, virtual_from_reals, svd_axis,
          pc, eval_args, noise, trial, datasets, gen, errors, estimate, stats,
          file, log,
          testbed, recon, extra_image_ids, console, output>>

\* ---------------------------------------------------------------- bounds
\* Number of mutator calls explored on one camera object.
MaxSteps == 4
\* Number of ComputeVirtual / ComputeVirtuals / VirtualCamera calls explored.
MaxCalls == 2
\* Longest pixel batch handed to ComputeVirtuals.
MaxPoints == 1
\* Number of noise levels Evaluate runs through.
MaxNoiseLevels == 2
\* Rejected samples counted in one GenerateRandom2D2DPoints call.
MaxRejections == 1

\* ------------------------------------------------------------ arithmetic
Abs(x) == IF x < 0 THEN -x ELSE x
Sign(x) == IF x > 0 THEN 1 ELSE IF x < 0 THEN -1 ELSE 0

RECURSIVE Gcd(_, _)
Gcd(a, b) == IF b = 0 THEN a ELSE Gcd(b, a % b)

\* The double n/d (d may be given negative or zero).
Dbl(n, d) ==
    LET Reduced(nn, dd, g) == [n |-> nn \div g, d |-> dd \div g]
        Positive(nn, dd) ==
            IF dd = 0 THEN [n |-> Sign(nn), d |-> 0]
            ELSE Reduced(nn, dd, Gcd(Abs(nn), dd))
    IN  Positive(IF d < 0 THEN -n ELSE n, Abs(d))

I(k) == [n |-> k, d |-> 1]
Zero == I(0)
One == I(1)
NaN == [n |-> 0, d |-> 0]
IsFinite(a) == a.d # 0
IsNaN(a) == a.n = 0 /\ a.d = 0

\* Products and sums reduce before they multiply, so that the model's
\* integers stay small.
Mul(a, b) ==
    LET Product(g1, g2) ==
            Dbl((a.n \div g1) * (b.n \div g2), (a.d \div g2) * (b.d \div g1))
    IN  Product(IF a.n = 0 \/ b.d = 0 THEN 1 ELSE Gcd(Abs(a.n), b.d),
                IF b.n = 0 \/ a.d = 0 THEN 1 ELSE Gcd(Abs(b.n), a.d))
Neg(a) == [n |-> -a.n, d |-> a.d]
Recip(a) == Dbl(a.d, a.n)
Div(a, b) == Mul(a, Recip(b))
Add(a, b) ==
    LET Total(g) == Dbl(a.n * (b.d \div g) + b.n * (a.d \div g),
                        (a.d \div g) * b.d)
    IN  IF a.d = 0 /\ b.d = 0
        THEN (IF a.n = b.n THEN a ELSE NaN)
        ELSE Total(IF a.d = 0 \/ b.d = 0 THEN 1 ELSE Gcd(a.d, b.d))
Sub(a, b) == Add(a, Neg(b))
\* a < b: false when either is NaN, the infinities below and above all.
Less(a, b) ==
    /\ ~IsNaN(a) /\ ~IsNaN(b)
    /\ IF a.d = 0 /\ b.d = 0 THEN a.n < b.n ELSE a.n * b.d < b.n * a.d

\* std::round of a finite double: nearest integer, halves away from zero.
Round(a) ==
    IF a.n >= 0 THEN (2 * a.n + a.d) \div (2 * a.d)
    ELSE -((2 * (-a.n) + a.d) \div (2 * a.d))

\* std::sqrt on the values that occur (squares of rationals).
ISqrt(k) == CHOOSE r \in 0..k : r * r = k
Sqrt(a) == Dbl(ISqrt(a.n), ISqrt(a.d))

\* ------------------------------------------ catalog of intrinsic models
kInvalidCameraId == -1
kInvalidCameraModelId == -1
kInvalidRefractiveCameraModelId == -1

\* SIMPLE_PINHOLE (f, cx, cy), PINHOLE (fx, fy, cx, cy),
\* SIMPLE_RADIAL (f, cx, cy, k).
CameraModels ==
    { [id |-> 0, name |-> "SIMPLE_PINHOLE", num |-> 3,
       focal |-> <<1>>, pp |-> <<2, 3>>, extra |-> <<>>],
      [id |-> 1, name |-> "PINHOLE", num |-> 4,
       focal |-> <<1, 2>>, pp |-> <<3, 4>>, extra |-> <<>>],
      [id |-> 2, name |-> "SIMPLE_RADIAL", num |-> 4,
       focal |-> <<1>>, pp |-> <<2, 3>>, extra |-> <<4>>] }

ExistsCameraModelWithId(model_id) == \E m \in CameraModels : m.id = model_id
ExistsCameraModelWithName(model_name) ==
    \E m \in CameraModels : m.name = model_name
CameraModelById(model_id) == CHOOSE m \in CameraModels : m.id = model_id
CameraModelNameToId(model_name) ==
    IF ExistsCameraModelWithName(model_name)
    THEN (CHOOSE m \in CameraModels : m.name = model_name).id
    ELSE kInvalidCameraModelId
CameraModelNumParams(model_id) ==
    IF ExistsCameraModelWithId(model_id)
    THEN CameraModelById(model_id).num ELSE 0
CameraModelFocalLengthIdxs(model_id) ==
    IF ExistsCameraModelWithId(model_id)
    THEN CameraModelById(model_id).focal ELSE <<>>
CameraModelPrincipalPointIdxs(model_id) ==
    IF ExistsCameraModelWithId(model_id)
    THEN CameraModelById(model_id).pp ELSE <<>>
CameraModelExtraParamsIdxs(model_id) ==
    IF ExistsCameraModelWithId(model_id)
    THEN CameraModelById(model_id).extra ELSE <<>>

\* The validator of an intrinsic model: the vector has the model's length.
CameraModelVerifyParams(model_id, params) ==
    /\ ExistsCameraModelWithId(model_id)
    /\ Len(params) = CameraModelNumParams(model_id)

\* Initial parameters: focal length(s), image centre, zero distortion.
CameraModelInitializeParams(model_id, focal_length, width, height) ==
    LET m == CameraModelById(model_id)
    IN  [i \in 1..m.num |->
            IF \E j \in 1..Len(m.focal) : m.focal[j] = i THEN focal_length
            ELSE IF m.pp[1] = i THEN Div(I(width), I(2))
            ELSE IF m.pp[2] = i THEN Div(I(height), I(2))
            ELSE Zero]

\* ----------------------------------------- catalog of refraction models
\* FLATPORT (nx, ny, nz, distance, thickness, na, ng, nw),
\* DOMEPORT (cx, cy, cz, radius, thickness, na, ng, nw).
CameraRefracModels ==
    { [id |-> 0, name |-> "FLATPORT", num |-> 8],
      [id |-> 1, name |-> "DOMEPORT", num |-> 8] }

ExistsCameraRefracModelWithId(refrac_model_id) ==
    \E m \in CameraRefracModels : m.id = refrac_model_id
ExistsCameraRefracModelWithName(refrac_model_name) ==
    \E m \in CameraRefracModels : m.name = refrac_model_name
CameraRefracModelNameToId(refrac_model_name) ==
    IF ExistsCameraRefracModelWithName(refrac_model_name)
    THEN (CHOOSE m \in CameraRefracModels : m.name = refrac_model_name).id
    ELSE kInvalidRefractiveCameraModelId
CameraRefracModelNumParams(refrac_model_id) ==
    IF ExistsCameraRefracModelWithId(refrac_model_id)
    THEN (CHOOSE m \in CameraRefracModels : m.id = refrac_model_id).num
    ELSE 0
CameraRefracModelVerifyParams(refrac_model_id, params) ==
    /\ ExistsCameraRefracModelWithId(refrac_model_id)
    /\ Len(params) = CameraRefracModelNumParams(refrac_model_id)

\* ------------------------------------------------------- text to vector
\* A string is a sequence of one-character strings.
Digits == <<"0", "1", "2", "3", "4", "5", "6", "7", "8", "9">>
IsDigit(ch) == \E k \in 1..10 : Digits[k] = ch
DigitVal(ch) == (CHOOSE k \in 1..10 : Digits[k] = ch) - 1

\* The comma-separated fields of a string.
RECURSIVE StringSplit(_, _, _)
StringSplit(s, i, cur) ==
    IF i > Len(s) THEN <<cur>>
    ELSE IF s[i] = "," THEN <<cur>> \o StringSplit(s, i + 1, <<>>)
    ELSE StringSplit(s, i + 1, Append(cur, s[i]))

\* Number of leading characters of t from position i that are digits.
RECURSIVE DigitRun(_, _)
DigitRun(t, i) ==
    IF i <= Len(t) /\ IsDigit(t[i]) THEN 1 + DigitRun(t, i + 1) ELSE 0

RECURSIVE DigitsValue(_, _, _)
DigitsValue(t, i, k) ==
    IF k = 0 THEN 0
    ELSE 10 * DigitsValue(t, i, k - 1) + DigitVal(t[i + k - 1])

RECURSIVE Pow10(_)
Pow10(k) == IF k = 0 THEN 1 ELSE 10 * Pow10(k - 1)

\* std::stold on one field: optional sign, digits, optional fraction; what
\* follows the longest numeric prefix is ignored; no digits at all throws.
ParseDouble(t) ==
    LET neg == Len(t) >= 1 /\ t[1] = "-"
        b == IF neg THEN 2 ELSE 1
        ni == DigitRun(t, b)
        dot == b + ni <= Len(t) /\ t[b + ni] = "."
        nf == IF dot THEN DigitRun(t, b + ni + 1) ELSE 0
        mag == Dbl(DigitsValue(t, b, ni) * Pow10(nf)
                     + DigitsValue(t, b + ni + 1, nf), Pow10(nf))
    IN  [ok |-> ni + nf > 0, val |-> IF neg THEN Neg(mag) ELSE mag]

\* CSVToVector<double>: empty fields are skipped, a field that does not
\* parse makes the whole result empty.
CSVToVector(s) ==
    LET fields == SelectSeq(StringSplit(s, 1, <<>>), LAMBDA t : Len(t) > 0)
    IN  IF \E k \in 1..Len(fields) : ~ParseDouble(fields[k]).ok THEN <<>>
        ELSE [k \in 1..Len(fields) |-> ParseDouble(fields[k]).val]

\* ------------------------------------------------------------- Camera
\* The default-constructed camera.
Camera ==
    [camera_id_ |-> kInvalidCameraId,
     model_id_ |-> kInvalidCameraModelId,
     width_ |-> 0,
     height_ |-> 0,
     params_ |-> <<>>,
     prior_focal_length_ |-> FALSE,
     refrac_model_id_ |-> kInvalidRefractiveCameraModelId,
     refrac_params_ |-> <<>>]

\* Outcome of a member function: the camera it leaves, whether it returned
\* (ok) or ended the process in a failed CHECK / LOG(FATAL), its value.
Returns(c, v) == [cam |-> c, ok |-> TRUE, ret |-> v]
Fatal(c) == [cam |-> c, ok |-> FALSE, ret |-> FALSE]

\* std::vector<double>::resize(n, 0).
Resize(v, n) == [i \in 1..n |-> IF i <= Len(v) THEN v[i] ELSE Zero]

SetModelId_NoResize(c, model_id) ==
    IF ~ExistsCameraModelWithId(model_id) THEN Fatal(c)
    ELSE Returns([c EXCEPT !.model_id_ = model_id], TRUE)

SetModelId_AssignFirst(c, model_id) ==
    IF ~ExistsCameraModelWithId(model_id)
    THEN Fatal([c EXCEPT !.model_id_ = model_id])
    ELSE Returns([c EXCEPT !.model_id_ = model_id,
                           !.params_ = Resize(c.params_,
                                              CameraModelNumParams(model_id))],
                 TRUE)

SetModelId(c, model_id) ==
    IF ~ExistsCameraModelWithId(model_id) THEN Fatal(c)
    ELSE Returns([c EXCEPT !.model_id_ = model_id,
                           !.params_ = Resize(c.params_,
                                              CameraModelNumParams(model_id))],
                 TRUE)

SetModelIdFromName(c, model_name) ==
    IF ~ExistsCameraModelWithName(model_name) THEN Fatal(c)
    ELSE LET id == CameraModelNameToId(model_name)
         IN  Returns([c EXCEPT !.model_id_ = id,
                               !.params_ = Resize(c.params_,
                                                  CameraModelNumParams(id))],
                     TRUE)

SetRefracModelId_ResizesIntrinsics(c, refrac_model_id) ==
    IF ~ExistsCameraRefracModelWithId(refrac_model_id) THEN Fatal(c)
    ELSE Returns([c EXCEPT
                    !.refrac_model_id_ = refrac_model_id,
                    !.params_ =
                        Resize(c.params_,
                               CameraRefracModelNumParams(refrac_model_id))],
                 TRUE)

SetRefracModelId(c, refrac_model_id) ==
    IF ~ExistsCameraRefracModelWithId(refrac_model_id) THEN Fatal(c)
    ELSE Returns([c EXCEPT
                    !.refrac_model_id_ = refrac_model_id,
                    !.refrac_params_ =
                        Resize(c.refrac_params_,
                               CameraRefracModelNumParams(refrac_model_id))],
                 TRUE)

SetRefracModelIdFromName(c, refrac_model_name) ==
    IF ~ExistsCameraRefracModelWithName(refrac_model_name) THEN Fatal(c)
    ELSE LET id == CameraRefracModelNameToId(refrac_model_name)
         IN  Returns([c EXCEPT
                        !.refrac_model_id_ = id,
                        !.refrac_params_ =
                            Resize(c.refrac_params_,
                                   CameraRefracModelNumParams(id))],
                     TRUE)

FocalLengthIdxs(c) == CameraModelFocalLengthIdxs(c.model_id_)
PrincipalPointIdxs(c) == CameraModelPrincipalPointIdxs(c.model_id_)
ExtraParamsIdxs(c) == CameraModelExtraParamsIdxs(c.model_id_)

\* Sum of the focal-length parameters over their count (0/0 when none).
RECURSIVE SumAt(_, _, _)
SumAt(v, idxs, k) ==
    IF k = 0 THEN Zero ELSE Add(SumAt(v, idxs, k - 1), v[idxs[k]])

MeanFocalLength(c) ==
    Div(SumAt(c.params_, FocalLengthIdxs(c), Len(FocalLengthIdxs(c))),
        I(Len(FocalLengthIdxs(c))))

\* Getters guarded by CHECK_EQ on the index count: the value read when the
\* check passes.
FocalLength(c) == c.params_[FocalLengthIdxs(c)[1]]
FocalLengthX(c) == c.params_[FocalLengthIdxs(c)[1]]
FocalLengthY(c) == c.params_[FocalLengthIdxs(c)[2]]
PrincipalPointX(c) == c.params_[PrincipalPointIdxs(c)[1]]
PrincipalPointY(c) == c.params_[PrincipalPointIdxs(c)[2]]

SetFocalLength(c, focal_length) ==
    Returns([c EXCEPT !.params_ =
                [i \in 1..Len(c.params_) |->
                    IF \E j \in 1..Len(FocalLengthIdxs(c)) :
                           FocalLengthIdxs(c)[j] = i
                    THEN focal_length ELSE c.params_[i]]],
            TRUE)

SetFocalLengthX(c, focal_length_x) ==
    IF Len(FocalLengthIdxs(c)) # 2 THEN Fatal(c)
    ELSE Returns([c EXCEPT !.params_[FocalLengthIdxs(c)[1]] = focal_length_x],
                 TRUE)

SetFocalLengthY(c, focal_length_y) ==
    IF Len(FocalLengthIdxs(c)) # 2 THEN Fatal(c)
    ELSE Returns([c EXCEPT !.params_[FocalLengthIdxs(c)[2]] = focal_length_y],
                 TRUE)

SetPrincipalPointX(c, ppx) ==
    IF Len(PrincipalPointIdxs(c)) # 2 THEN Fatal(c)
    ELSE Returns([c EXCEPT !.params_[PrincipalPointIdxs(c)[1]] = ppx], TRUE)

SetPrincipalPointY(c, ppy) ==
    IF Len(PrincipalPointIdxs(c)) # 2 THEN Fatal(c)
    ELSE Returns([c EXCEPT !.params_[PrincipalPointIdxs(c)[2]] = ppy], TRUE)

SetParamsFromString_NoVerify(c, string) ==
    Returns([c EXCEPT !.params_ = CSVToVector(string)], TRUE)

SetParamsFromString(c, string) ==
    LET new_camera_params == CSVToVector(string)
    IN  IF ~CameraModelVerifyParams(c.model_id_, new_camera_params)
        THEN Returns(c, FALSE)
        ELSE Returns([c EXCEPT !.params_ = new_camera_params], TRUE)

SetRefracParamsFromString(c, string) ==
    LET new_refrac_params == CSVToVector(string)
    IN  IF ~CameraRefracModelVerifyParams(c.refrac_model_id_,
                                          new_refrac_params)
        THEN Returns(c, FALSE)
        ELSE Returns([c EXCEPT !.refrac_params_ = new_refrac_params], TRUE)

VerifyParams(c) == CameraModelVerifyParams(c.model_id_, c.params_)
VerifyRefracParams(c) ==
    CameraRefracModelVerifyParams(c.refrac_model_id_, c.refrac_params_)

IsCameraRefractive(c) ==
    c.refrac_model_id_ # kInvalidRefractiveCameraModelId

InitializeWithId(c, model_id, focal_length, width, height) ==
    IF ~ExistsCameraModelWithId(model_id) THEN Fatal(c)
    ELSE Returns([c EXCEPT
                    !.model_id_ = model_id,
                    !.width_ = width,
                    !.height_ = height,
                    !.params_ = CameraModelInitializeParams(
                                    model_id, focal_length, width, height)],
                 TRUE)

InitializeWithName(c, model_name, focal_length, width, height) ==
    InitializeWithId(c, CameraModelNameToId(model_name),
                     focal_length, width, height)

RescaleParams_FocalByX(c, scale_x, scale_y) ==
    IF Len(PrincipalPointIdxs(c)) # 2 THEN Fatal(c)
    ELSE
      LET c1 == SetPrincipalPointX(c, Mul(scale_x, PrincipalPointX(c))).cam
          c2 == SetPrincipalPointY(c1, Mul(scale_y, PrincipalPointY(c1))).cam
      IN  IF Len(FocalLengthIdxs(c2)) = 1
          THEN SetFocalLength(c2, Mul(scale_x, FocalLength(c2)))
          ELSE LET c3 == SetFocalLengthX(c2, Mul(scale_x,
                                                 FocalLengthX(c2))).cam
               IN  SetFocalLengthY(c3, Mul(scale_y, FocalLengthY(c3)))

RescaleParams_ScaleRefrac(c, scale_x, scale_y) ==
    IF Len(PrincipalPointIdxs(c)) # 2 THEN Fatal(c)
    ELSE
      LET c1 == SetPrincipalPointX(c, Mul(scale_x, PrincipalPointX(c))).cam
          c2 == SetPrincipalPointY(c1, Mul(scale_y, PrincipalPointY(c1))).cam
          c3 == [c2 EXCEPT !.refrac_params_ =
                    [i \in 1..Len(c2.refrac_params_) |->
                        IF i \in {4, 5}
                        THEN Mul(scale_x, c2.refrac_params_[i])
                        ELSE c2.refrac_params_[i]]]
      IN  IF Len(FocalLengthIdxs(c3)) = 1
          THEN SetFocalLength(c3, Mul(Div(Add(scale_x, scale_y), I(2)),
                                      FocalLength(c3)))
          ELSE LET c4 == SetFocalLengthX(c3, Mul(scale_x,
                                                 FocalLengthX(c3))).cam
               IN  SetFocalLengthY(c4, Mul(scale_y, FocalLengthY(c4)))

\* The common tail of both Rescale overloads: the principal point, then
\* the focal length(s), each setter after the getter that feeds it.
RescaleParams(c, scale_x, scale_y) ==
    IF Len(PrincipalPointIdxs(c)) # 2 THEN Fatal(c)
    ELSE
      LET c1 == SetPrincipalPointX(c, Mul(scale_x, PrincipalPointX(c))).cam
          c2 == SetPrincipalPointY(c1, Mul(scale_y, PrincipalPointY(c1))).cam
      IN  IF Len(FocalLengthIdxs(c2)) = 1
          THEN SetFocalLength(c2, Mul(Div(Add(scale_x, scale_y), I(2)),
                                      FocalLength(c2)))
          ELSE IF Len(FocalLengthIdxs(c2)) = 2
          THEN LET c3 == SetFocalLengthX(c2, Mul(scale_x,
                                                 FocalLengthX(c2))).cam
               IN  SetFocalLengthY(c3, Mul(scale_y, FocalLengthY(c3)))
          ELSE Fatal(c2)

RescaleBy_UnroundedRatio(c, scale) ==
    IF ~Less(Zero, scale) THEN Fatal(c)
    ELSE
      LET new_width == Round(Mul(scale, I(c.width_)))
          new_height == Round(Mul(scale, I(c.height_)))
      IN  RescaleParams([c EXCEPT !.width_ = new_width,
                                  !.height_ = new_height],
                        scale, scale)

\* Rescale(double scale).
RescaleBy(c, scale) ==
    IF ~Less(Zero, scale) THEN Fatal(c)
    ELSE
      LET new_width == Round(Mul(scale, I(c.width_)))
          new_height == Round(Mul(scale, I(c.height_)))
          scale_x == Div(I(new_width), I(c.width_))
          scale_y == Div(I(new_height), I(c.height_))
      IN  RescaleParams([c EXCEPT !.width_ = new_width,
                                  !.height_ = new_height],
                        scale_x, scale_y)

\* Rescale(size_t width, size_t height).
RescaleTo(c, width, height) ==
    LET scale_x == Div(I(width), I(c.width_))
        scale_y == Div(I(height), I(c.height_))
    IN  RescaleParams([c EXCEPT !.width_ = width, !.height_ = height],
                      scale_x, scale_y)

\* ------------------------------------------------------------ geometry
\* Eigen::Vector3d as a triple of doubles, a rotation (Eigen::Quaterniond
\* up to sign) as the three rows of its rotation matrix.
ZeroVec == <<Zero, Zero, Zero>>
UnitZ == <<Zero, Zero, One>>
\* A local initialized once where it is declared:
\* Only({body : x \in {value}}) is the body with x holding the value.
Only(S) == CHOOSE r \in S : TRUE

\* The triple of the coefficients f[1], f[2], f[3].
Vec3(f) == <<f[1], f[2], f[3]>>
Sum3(v) == Add(Add(v[1], v[2]), v[3])
Dot(a, b) == Sum3(Vec3([i \in 1..3 |-> Mul(a[i], b[i])]))
Cross(a, b) ==
    LET Nxt(i) == (i % 3) + 1
    IN  Vec3([i \in 1..3 |-> Sub(Mul(a[Nxt(i)], b[Nxt(Nxt(i))]),
                                 Mul(a[Nxt(Nxt(i))], b[Nxt(i)]))])
Scale(k, a) == Vec3([i \in 1..3 |-> Mul(k, a[i])])
Plus(a, b) == Vec3([i \in 1..3 |-> Add(a[i], b[i])])
Minus(a) == Vec3([i \in 1..3 |-> Neg(a[i])])
Rotate(R, a) == Vec3([i \in 1..3 |-> Dot(R[i], a)])
FiniteVec(a) == \A i \in 1..3 : IsFinite(a[i])

\* Eigen normalized(): the vector over its norm, a zero vector unchanged.
Normalized(a) ==
    Only({ IF Less(Zero, squared_norm)
           THEN Scale(Recip(Sqrt(squared_norm)), a)
           ELSE a : squared_norm \in {Dot(a, a)} })

\* Eigen hnormalized() of a 3-vector.
HNormalized(a) == <<Div(a[1], a[3]), Div(a[2], a[3])>>

\* The rotation matrix of the normalized quaternion (w, v), given w*w,
\* v.v (v2), the products 2*v*v^T (vvT2) and the vector 2*w*v (wv2).
QuaternionMatrix(ww, v2, vvT2, wv2) ==
    LET E(i, j) == IF i = j THEN Sub(ww, v2) ELSE Zero
        K == << <<Zero, Neg(wv2[3]), wv2[2]>>,
                <<wv2[3], Zero, Neg(wv2[1])>>,
                <<Neg(wv2[2]), wv2[1], Zero>> >>
    IN  Only({ Vec3([i \in 1..3 |-> Vec3([j \in 1..3 |->
                   Div(Add(Add(E(i, j), vvT2[i][j]), K[i][j]), nn)])])
               : nn \in {Add(ww, v2)} })

\* Eigen::Quaterniond::FromTwoVectors(a, b).normalized().  With c the
\* cosine between the unit vectors and k their cross product, the
\* quaternion is w = s/2, v = k/s, s = sqrt(2(1+c)); for opposite vectors
\* it is w = 0, v = a unit axis orthogonal to both, which Eigen takes from
\* a singular value decomposition (`ortho`).
FromTwoVectors(a, b, ortho) ==
    LET Quaternion(opposite, k, s2) ==
            QuaternionMatrix(
                IF opposite THEN Zero ELSE Div(s2, I(4)),
                IF opposite THEN One ELSE Div(Dot(k, k), s2),
                Vec3([i \in 1..3 |-> Vec3([j \in 1..3 |->
                    IF opposite THEN Mul(I(2), Mul(ortho[i], ortho[j]))
                    ELSE Div(Mul(I(2), Mul(k[i], k[j])), s2)])]),
                IF opposite THEN ZeroVec ELSE k)
        FromCosine(c, k) ==
            Only({ Quaternion(~Less(I(-1), c) /\ IsFinite(c), k, s2)
                   : s2 \in {Mul(I(2), Add(One, c))} })
        FromUnit(v0, v1) ==
            Only({ FromCosine(c, k)
                   : c \in {Dot(v1, v0)}, k \in {Cross(v0, v1)} })
    IN  Only({ FromUnit(v0, v1)
               : v0 \in {Normalized(a)}, v1 \in {Normalized(b)} })

\* Ray3D and Rigid3d.
Ray3D(ori, dir) == [ori |-> ori, dir |-> dir]
Rigid3d(rotation, translation) ==
    [rotation |-> rotation, translation |-> translation]
Apply(tform, a) == Plus(Rotate(tform.rotation, a), tform.translation)

\* Closest point to the second line on the first line (their intersection
\* when they meet); parallel lines give a non-finite point.
IntersectLinesWithTolerance(origin1, dir1, origin2, dir2) ==
    LET Solve(a, b, c, d, e) ==
            Plus(origin1,
                 Scale(Div(Sub(Mul(b, e), Mul(c, d)),
                           Sub(Mul(b, b), Mul(a, c))), dir1))
        From(o) ==
            Only({ Solve(a, b, c, d, e)
                   : a \in {Dot(dir1, dir1)}, b \in {Dot(dir1, dir2)},
                     c \in {Dot(dir2, dir2)}, d \in {Dot(dir1, o)},
                     e \in {Dot(dir2, o)} })
    IN  Only({ From(o) : o \in {Plus(origin2, Minus(origin1))} })

\* Pinhole unprojection of the catalog models without distortion:
\* ((x - cx) / fx, (y - cy) / fy, 1).
CameraModelCamFromImg(model_id, params, image_point) ==
    LET m == CameraModelById(model_id)
        fx == params[m.focal[1]]
        fy == params[m.focal[Len(m.focal)]]
    IN  << Div(Sub(image_point[1], params[m.pp[1]]), fx),
           Div(Sub(image_point[2], params[m.pp[2]]), fy),
           One >>

\* The interface normal of a flat port, the decentering direction of a
\* dome port, as a unit vector.
CameraRefracModelRefractionAxis(refrac_model_id, refrac_params) ==
    Normalized(<<refrac_params[1], refrac_params[2], refrac_params[3]>>)

\* The unprojected ray bent at the interface (small-angle refraction: the
\* component along the axis is kept, the component across it is scaled by
\* the ratio of the refractive indices); without a refraction variant the
\* plain unprojected ray from the nominal centre.
CameraRefracModelCamFromImg(model_id, refrac_model_id, params, refrac_params, image_point) ==
    LET dist == refrac_params[4]
        thick == refrac_params[5]
        Exit(dir0, n, k, in_glass, in_water) ==
            Ray3D(Plus(Scale(Div(dist, k), dir0),
                       Scale(Div(thick, Dot(n, in_glass)), in_glass)),
                  in_water)
        Through(dir0, n, k) ==
            LET Bend(mu) == Plus(Scale(mu, dir0),
                                 Scale(Mul(Sub(One, mu), k), n))
            IN  Only({ Exit(dir0, n, k, in_glass, in_water)
                       : in_glass \in
                             {Bend(Div(refrac_params[6], refrac_params[7]))},
                         in_water \in
                             {Bend(Div(refrac_params[6], refrac_params[8]))} })
        Along(dir0, n) == Only({ Through(dir0, n, k) : k \in {Dot(n, dir0)} })
        Refract(dir0) ==
            IF ~ExistsCameraRefracModelWithId(refrac_model_id)
            THEN Ray3D(ZeroVec, dir0)
            ELSE Only({ Along(dir0, n)
                        : n \in {CameraRefracModelRefractionAxis(
                                     refrac_model_id, refrac_params)} })
    IN  Only({ Refract(dir0)
               : dir0 \in {CameraModelCamFromImg(model_id, params,
                                                 image_point)} })

SetWidth(c, width) == [c EXCEPT !.width_ = width]
SetHeight(c, height) == [c EXCEPT !.height_ = height]
SetParams(c, params) == [c EXCEPT !.params_ = params]

CamFromImg(c, image_point) ==
    HNormalized(CameraModelCamFromImg(c.model_id_, c.params_, image_point))

CamFromImgRefrac_SwappedPixel(c, image_point) ==
    CameraRefracModelCamFromImg(c.model_id_, c.refrac_model_id_,
                                c.params_, c.refrac_params_,
                                <<image_point[2], image_point[1]>>)

CamFromImgRefrac(c, image_point) ==
    CameraRefracModelCamFromImg(c.model_id_, c.refrac_model_id_,
                                c.params_, c.refrac_params_, image_point)

RefractionAxis(c) ==
    CameraRefracModelRefractionAxis(c.refrac_model_id_, c.refrac_params_)

VirtualFromRealRotation_Swapped(c, ortho) ==
    FromTwoVectors(UnitZ, RefractionAxis(c), ortho)

VirtualFromRealRotation(c, ortho) ==
    FromTwoVectors(RefractionAxis(c), UnitZ, ortho)

VirtualCameraCenter(c, ray_refrac) ==
    IntersectLinesWithTolerance(ZeroVec, RefractionAxis(c),
                                ray_refrac.ori, Minus(ray_refrac.dir))

VirtualCamera_FirstFocal(c, image_point, cam_point) ==
    LET v0 == SetModelIdFromName(Camera, "SIMPLE_PINHOLE").cam
        WithFocal(f) ==
            Returns(c, SetParams(SetHeight(SetWidth(v0, c.width_), c.height_),
                        << f,
                           Sub(image_point[1], Mul(f, cam_point[1])),
                           Sub(image_point[2], Mul(f, cam_point[2])) >>))
    IN  Only({ WithFocal(f) : f \in {c.params_[FocalLengthIdxs(c)[1]]} })

VirtualCamera(c, image_point, cam_point) ==
    LET v0 == SetModelIdFromName(Camera, "SIMPLE_PINHOLE").cam
        WithFocal(f) ==
            Returns(c, SetParams(SetHeight(SetWidth(v0, c.width_), c.height_),
                        << f,
                           Sub(image_point[1], Mul(f, cam_point[1])),
                           Sub(image_point[2], Mul(f, cam_point[2])) >>))
        idxs == FocalLengthIdxs(c)
    IN  IF Len(idxs) = 1
        THEN Only({ WithFocal(f) : f \in {c.params_[idxs[1]]} })
        ELSE IF Len(idxs) = 2
        THEN Only({ WithFocal(f)
                    : f \in {Div(Add(c.params_[idxs[1]], c.params_[idxs[2]]),
                                 I(2))} })
        ELSE Fatal(c)

ComputeVirtual_NoRotation(c, point2D, ortho) ==
    LET Finish(virtual_from_real_rotation, vc, virtual_cam_center) ==
            IF ~vc.ok THEN vc
            ELSE Returns(c, [virtual_camera |-> vc.ret,
                             virtual_from_real |->
                                 Rigid3d(virtual_from_real_rotation,
                                         Minus(virtual_cam_center))])
        Build(virtual_from_real_rotation, ray_refrac) ==
            Only({ Finish(virtual_from_real_rotation, vc, virtual_cam_center)
                   : virtual_cam_center \in
                         {VirtualCameraCenter(c, ray_refrac)},
                     vc \in {VirtualCamera(c, point2D,
                                 HNormalized(Rotate(virtual_from_real_rotation,
                                                    ray_refrac.dir)))} })
    IN  Only({ Build(virtual_from_real_rotation, ray_refrac)
               : virtual_from_real_rotation \in
                     {VirtualFromRealRotation(c, ortho)},
                 ray_refrac \in {CamFromImgRefrac(c, point2D)} })

ComputeVirtual(c, point2D, ortho) ==
    LET Finish(virtual_from_real_rotation, vc, virtual_cam_center) ==
            IF ~vc.ok THEN vc
            ELSE Returns(c, [virtual_camera |-> vc.ret,
                             virtual_from_real |->
                                 Rigid3d(virtual_from_real_rotation,
                                         Rotate(virtual_from_real_rotation,
                                                Minus(virtual_cam_center)))])
        Build(virtual_from_real_rotation, ray_refrac) ==
            Only({ Finish(virtual_from_real_rotation, vc, virtual_cam_center)
                   : virtual_cam_center \in
                         {VirtualCameraCenter(c, ray_refrac)},
                     vc \in {VirtualCamera(c, point2D,
                                 HNormalized(Rotate(virtual_from_real_rotation,
                                                    ray_refrac.dir)))} })
    IN  Only({ Build(virtual_from_real_rotation, ray_refrac)
               : virtual_from_real_rotation \in
                     {VirtualFromRealRotation(c, ortho)},
                 ray_refrac \in {CamFromImgRefrac(c, point2D)} })

\* The caller's two output vectors after the call: one ComputeVirtual per
\* pixel, in order, each result pushed at the back.
RECURSIVE ComputeVirtuals(_, _, _, _, _)
ComputeVirtuals(c, points, cams, tforms, ortho) ==
    LET Push(r) ==
            IF ~r.ok THEN r
            ELSE ComputeVirtuals(c, Tail(points),
                                 Append(cams, r.ret.virtual_camera),
                                 Append(tforms, r.ret.virtual_from_real),
                                 ortho)
    IN  IF Len(points) = 0
        THEN Returns(c, [virtual_cameras |-> cams,
                         virtual_from_reals |-> tforms])
        ELSE Only({ Push(r) : r \in {ComputeVirtual(c, Head(points), ortho)} })

\* ------------------------------------------------- inputs of the calls
ModelIdInputs == {-1, 0, 1, 2, 7}
ModelNameInputs == {"SIMPLE_PINHOLE", "PINHOLE", "SIMPLE_RADIAL", "OPENCV5"}
RefracModelIdInputs == {-1, 0, 1, 7}
RefracModelNameInputs == {"FLATPORT", "DOMEPORT", "PRISM"}
DoubleInputs == {I(3)}
SizeInputs == {<<2, 2>>, <<1, 2>>}
ScaleInputs == {Zero, Dbl(1, 4), Dbl(1, 2), One, Dbl(3, 2)}
NewSizeInputs == {<<1, 1>>, <<2, 4>>, <<3, 2>>}
\* "2,1,1"  "2,4,1,1"  "1.5,x,1"  "2x,-1,.5"  "2,1"
ParamsStringInputs ==
    { <<"2", ",", "1", ",", "1">>,
      <<"2", ",", "4", ",", "1", ",", "1">>,
      <<"1", ".", "5", ",", "x", ",", "1">>,
      <<"2", "x", ",", "-", "1", ",", ".", "5">>,
      <<"2", ",", "1">> }
\* "0,0,1,1,1,1,2,2"  "3,0,4,,2,1,1,2,2"  "0,0,1"  "0,0,n,1,1,1,2,2"
RefracParamsStringInputs ==
    { <<"0", ",", "0", ",", "1", ",", "1", ",", "1", ",",
        "1", ",", "2", ",", "2">>,
      <<"3", ",", "0", ",", "4", ",", ",", "2", ",", "1", ",",
        "1", ",", "2", ",", "2">>,
      <<"0", ",", "0", ",", "1">>,
      <<"0", ",", "0", ",", "n", ",", "1", ",", "1", ",",
        "1", ",", "2", ",", "2">> }

\* ------------------------------------------------ synthetic-data harness
\* Forward projection of the catalog models without distortion:
\* (fx * u / w + cx, fy * v / w + cy).
CameraModelImgFromCam(model_id, params, uvw) ==
    LET m == CameraModelById(model_id)
    IN  << Add(Mul(params[m.focal[1]], Div(uvw[1], uvw[3])),
               params[m.pp[1]]),
           Add(Mul(params[m.focal[Len(m.focal)]], Div(uvw[2], uvw[3])),
               params[m.pp[2]]) >>

\* The pixel whose refracted ray passes through the point: the inverse of
\* CameraRefracModelCamFromImg for an interface normal along +Z (the
\* configuration of the harness), NaN for a point on the camera side of
\* the interface (no ray solution); without a refraction variant the
\* plain projection.
CameraRefracModelImgFromCam(model_id, refrac_model_id, params, refrac_params, cam_point) ==
    LET Solve(t, through) ==
            IF IsNaN(t) \/ Less(t, Zero) THEN <<NaN, NaN>>
            ELSE CameraModelImgFromCam(
                     model_id, params,
                     << Div(cam_point[1], Add(through, Mul(t, Div(refrac_params[6], refrac_params[8])))),
                        Div(cam_point[2], Add(through, Mul(t, Div(refrac_params[6], refrac_params[8])))),
                        One >>)
    IN  IF ~ExistsCameraRefracModelWithId(refrac_model_id)
        THEN CameraModelImgFromCam(model_id, params, cam_point)
        ELSE Only({ Solve(t, through)
                    : t \in {Sub(cam_point[3],
                                 Add(refrac_params[4], refrac_params[5]))},
                      through \in
                          {Add(refrac_params[4],
                               Mul(refrac_params[5],
                                   Div(refrac_params[6],
                                       refrac_params[7])))} })

ImgFromCam(c, cam_point) ==
    CameraModelImgFromCam(c.model_id_, c.params_,
                          <<cam_point[1], cam_point[2], One>>)

ImgFromCamRefrac(c, cam_point) ==
    CameraRefracModelImgFromCam(c.model_id_, c.refrac_model_id_,
                                c.params_, c.refrac_params_, cam_point)

\* A default-constructed Rigid3d: no rotation, no translation.
Rigid3dIdentity ==
    Rigid3d(<<<<One, Zero, Zero>>, <<Zero, One, Zero>>, <<Zero, Zero, One>>>>,
            ZeroVec)

\* A default-constructed PointsData.
PointsData ==
    [points2D1 |-> <<>>, points2D1_refrac |-> <<>>,
     points2D2 |-> <<>>, points2D2_refrac |-> <<>>,
     virtual_cameras1 |-> <<>>, virtual_cameras2 |-> <<>>,
     virtual_from_reals1 |-> <<>>, virtual_from_reals2 |-> <<>>,
     cam2_from_cam1_gt |-> Rigid3dIdentity]

\* Standard deviation of the noise put on an outlier point.
OutlierNoise == 200

\* The noise levels Evaluate runs through, cut to the first MaxNoiseLevels.
noise_levels ==
    SubSeq(<<Zero, Dbl(1, 5), Dbl(1, 2), Dbl(4, 5), Dbl(6, 5), Dbl(3, 2),
             Dbl(9, 5), I(2)>>, 1, MaxNoiseLevels)

\* GenerateRandom2D2DPoints up to its loop: the four pixel vectors emptied,
\* the ground truth stored, the inlier boundary computed.
GenerateBegin(num_points, cam2_from_cam1_gt, points_data, inlier_ratio) ==
    [points_data |->
         [points_data EXCEPT !.points2D1 = <<>>,
                             !.points2D1_refrac = <<>>,
                             !.points2D2 = <<>>,
                             !.points2D2_refrac = <<>>,
                             !.cam2_from_cam1_gt = cam2_from_cam1_gt],
     num_inliers |->
         Only({ product.n \div product.d
                : product \in {Mul(I(num_points), inlier_ratio)} }),
     cnt |-> 0]

\* One iteration's noise-free sample: the drawn pixel of view 1, the point
\* at the drawn depth on its refracted ray, the point moved into view 2,
\* and the projections of both.
Sample(c, cam2_from_cam1_gt, draw) ==
    LET At(ray, d) == Plus(ray.ori, Scale(d, ray.dir))
        Project(point3D1, point3D2) ==
            [point2D1_refrac |-> draw.point2D1_refrac,
             point2D2_refrac |-> ImgFromCamRefrac(c, point3D2),
             point2D1 |-> ImgFromCam(c, HNormalized(point3D1)),
             point2D2 |-> ImgFromCam(c, HNormalized(point3D2))]
        Transfer(point3D1) ==
            Only({ Project(point3D1, point3D2)
                   : point3D2 \in {Apply(cam2_from_cam1_gt, point3D1)} })
    IN  Only({ Transfer(point3D1)
               : point3D1 \in
                     {At(CamFromImgRefrac(c, draw.point2D1_refrac),
                         draw.d)} })

SampleRejected_NoUpperBound(c, point2D2_refrac) ==
    \/ IsNaN(point2D2_refrac[1]) \/ IsNaN(point2D2_refrac[2])
    \/ Less(point2D2_refrac[1], Zero)
    \/ Less(point2D2_refrac[2], Zero)

\* The two tests that send the loop back to its head.
SampleRejected(c, point2D2_refrac) ==
    \/ IsNaN(point2D2_refrac[1]) \/ IsNaN(point2D2_refrac[2])
    \/ Less(point2D2_refrac[1], Zero)
    \/ Less(I(c.width_), point2D2_refrac[1])
    \/ Less(point2D2_refrac[2], Zero)
    \/ Less(I(c.height_), point2D2_refrac[2])

AddNoise_BoundaryIncluded(sample, cnt, num_inliers, noise_level, z) ==
    LET Noised(s) ==
            [point2D1 |->
                 <<Add(sample.point2D1[1], Mul(s, z[1])),
                   Add(sample.point2D1[2], Mul(s, z[2]))>>,
             point2D1_refrac |->
                 <<Add(sample.point2D1_refrac[1], Mul(s, z[3])),
                   Add(sample.point2D1_refrac[2], Mul(s, z[4]))>>,
             point2D2 |->
                 <<Add(sample.point2D2[1], Mul(s, z[5])),
                   Add(sample.point2D2[2], Mul(s, z[6]))>>,
             point2D2_refrac |->
                 <<Add(sample.point2D2_refrac[1], Mul(s, z[7])),
                   Add(sample.point2D2_refrac[2], Mul(s, z[8]))>>]
    IN  IF cnt <= num_inliers
        THEN (IF Less(Zero, noise_level) THEN Noised(noise_level)
              ELSE sample)
        ELSE Noised(I(OutlierNoise))

\* The sample after the noise branch; z holds the eight unit Gaussian
\* draws in the order the code takes them, RandomGaussian(0, s) is s * z.
AddNoise(sample, cnt, num_inliers, noise_level, z) ==
    LET Noised(s) ==
            [point2D1 |->
                 <<Add(sample.point2D1[1], Mul(s, z[1])),
                   Add(sample.point2D1[2], Mul(s, z[2]))>>,
             point2D1_refrac |->
                 <<Add(sample.point2D1_refrac[1], Mul(s, z[3])),
                   Add(sample.point2D1_refrac[2], Mul(s, z[4]))>>,
             point2D2 |->
                 <<Add(sample.point2D2[1], Mul(s, z[5])),
                   Add(sample.point2D2[2], Mul(s, z[6]))>>,
             point2D2_refrac |->
                 <<Add(sample.point2D2_refrac[1], Mul(s, z[7])),
                   Add(sample.point2D2_refrac[2], Mul(s, z[8]))>>]
    IN  IF cnt < num_inliers
        THEN (IF Less(Zero, noise_level) THEN Noised(noise_level)
              ELSE sample)
        ELSE Noised(I(OutlierNoise))

PushSample_ThreeVectors(points_data, s) ==
    [points_data EXCEPT
         !.points2D1 = Append(@, s.point2D1),
         !.points2D2 = Append(@, s.point2D2),
         !.points2D1_refrac = Append(@, s.point2D1_refrac)]

\* The four push_back calls.
PushSample(points_data, s) ==
    [points_data EXCEPT
         !.points2D1 = Append(@, s.point2D1),
         !.points2D2 = Append(@, s.point2D2),
         !.points2D1_refrac = Append(@, s.point2D1_refrac),
         !.points2D2_refrac = Append(@, s.point2D2_refrac)]

SynthesizeVirtuals_PlainPixels(c, points_data, ortho) ==
    LET Second(v1, v2) ==
            IF ~v2.ok THEN v2
            ELSE Returns(c, [points_data EXCEPT
                     !.virtual_cameras1 = v1.ret.virtual_cameras,
                     !.virtual_from_reals1 = v1.ret.virtual_from_reals,
                     !.virtual_cameras2 = v2.ret.virtual_cameras,
                     !.virtual_from_reals2 = v2.ret.virtual_from_reals])
        First(v1) ==
            IF ~v1.ok THEN v1
            ELSE Only({ Second(v1, v2)
                        : v2 \in {ComputeVirtuals(
                                      c, points_data.points2D2,
                                      points_data.virtual_cameras2,
                                      points_data.virtual_from_reals2,
                                      ortho)} })
    IN  Only({ First(v1)
               : v1 \in {ComputeVirtuals(c, points_data.points2D1,
                                         points_data.virtual_cameras1,
                                         points_data.virtual_from_reals1,
                                         ortho)} })

\* The tail of GenerateRandom2D2DPoints: ComputeVirtuals for view 1, then
\* for view 2, each appending to the vectors of points_data.
SynthesizeVirtuals(c, points_data, ortho) ==
    LET Second(v1, v2) ==
            IF ~v2.ok THEN v2
            ELSE Returns(c, [points_data EXCEPT
                     !.virtual_cameras1 = v1.ret.virtual_cameras,
                     !.virtual_from_reals1 = v1.ret.virtual_from_reals,
                     !.virtual_cameras2 = v2.ret.virtual_cameras,
                     !.virtual_from_reals2 = v2.ret.virtual_from_reals])
        First(v1) ==
            IF ~v1.ok THEN v1
            ELSE Only({ Second(v1, v2)
                        : v2 \in {ComputeVirtuals(
                                      c, points_data.points2D2_refrac,
                                      points_data.virtual_cameras2,
                                      points_data.virtual_from_reals2,
                                      ortho)} })
    IN  Only({ First(v1)
               : v1 \in {ComputeVirtuals(c, points_data.points2D1_refrac,
                                         points_data.virtual_cameras1,
                                         points_data.virtual_from_reals1,
                                         ortho)} })

\* EstimateRelativePose: every point matched to itself, the estimator of
\* the mode invoked, its pose and the size of its inlier set returned.
\* two_view_geometry is the answer of the estimator.
\* The estimator EstimateRelativePose invokes and the arguments it passes:
\* the matches (i, i) over the points of the first plain pixel sequence.
EstimatorCall_PlainPixelsToRefractive(c, points_data, is_refractive) ==
    LET matches == [i \in 1..Len(points_data.points2D1) |-> <<i - 1, i - 1>>]
    IN  IF ~is_refractive
        THEN [estimator |-> "EstimateCalibratedTwoViewGeometry",
              camera1 |-> c, points1 |-> points_data.points2D1,
              camera2 |-> c, points2 |-> points_data.points2D2,
              matches |-> matches]
        ELSE [estimator |-> "EstimateRefractiveTwoViewGeometry",
              points1 |-> points_data.points2D1,
              virtual_cameras1 |-> points_data.virtual_cameras1,
              virtual_from_reals1 |-> points_data.virtual_from_reals1,
              points2 |-> points_data.points2D2,
              virtual_cameras2 |-> points_data.virtual_cameras2,
              virtual_from_reals2 |-> points_data.virtual_from_reals2,
              matches |-> matches]

EstimatorCall(c, points_data, is_refractive) ==
    LET matches == [i \in 1..Len(points_data.points2D1) |-> <<i - 1, i - 1>>]
    IN  IF ~is_refractive
        THEN [estimator |-> "EstimateCalibratedTwoViewGeometry",
              camera1 |-> c, points1 |-> points_data.points2D1,
              camera2 |-> c, points2 |-> points_data.points2D2,
              matches |-> matches]
        ELSE [estimator |-> "EstimateRefractiveTwoViewGeometry",
              points1 |-> points_data.points2D1_refrac,
              virtual_cameras1 |-> points_data.virtual_cameras1,
              virtual_from_reals1 |-> points_data.virtual_from_reals1,
              points2 |-> points_data.points2D2_refrac,
              virtual_cameras2 |-> points_data.virtual_cameras2,
              virtual_from_reals2 |-> points_data.virtual_from_reals2,
              matches |-> matches]

\* The call and the estimator's answer are kept beside the two results.
EstimateRelativePose(c, points_data, is_refractive, two_view_geometry) ==
    [cam2_from_cam1 |-> two_view_geometry.cam2_from_cam1,
     num_inliers |-> Len(two_view_geometry.inlier_matches),
     call |-> EstimatorCall(c, points_data, is_refractive),
     two_view_geometry |-> two_view_geometry]

\* RadToDeg of the angle of a rotation is tabulated on the cosines that
\* occur (22.62 degrees for the cosine 12/13).
PoseError(cam2_from_cam1_gt, cam2_from_cam1_est, is_refractive) ==
    LET RadToDegAngle(R) ==
            LET Table == { <<One, Zero>>, <<Dbl(12, 13), Dbl(1131, 50)>>,
                           <<Zero, I(90)>>, <<I(-1), I(180)>> }
                Cosine == Div(Sub(Sum3(Vec3([i \in 1..3 |-> R[i][i]])), One),
                              I(2))
            IN  (CHOOSE e \in Table : e[1] = Cosine)[2]
        Transpose(R) == Vec3([i \in 1..3 |-> Vec3([j \in 1..3 |-> R[j][i]])])
        Inverse(t) ==
            Rigid3d(Transpose(t.rotation),
                    Minus(Rotate(Transpose(t.rotation), t.translation)))
        \* rotation of a * b
        Product(A, B) ==
            Transpose(Vec3([j \in 1..3 |-> Rotate(A, Transpose(B)[j])]))
        Norm(v) == Sqrt(Dot(v, v))
        Errors(gt) ==
            [rotation_error |->
                 RadToDegAngle(Product(gt.rotation,
                                       Inverse(cam2_from_cam1_est).rotation)),
             position_error |->
                 Mul(Norm(Plus(Inverse(gt).translation,
                               Minus(Inverse(cam2_from_cam1_est).translation))),
                     I(1000))]
    IN  IF ~is_refractive
        THEN Errors(Rigid3d(cam2_from_cam1_gt.rotation,
                            Normalized(cam2_from_cam1_gt.translation)))
        ELSE Errors(cam2_from_cam1_gt)

\* Mean and Variance of colmap/math: the sum over the size, the squared
\* deviations over size - 1.  StdDev is the root of Variance; the report
\* columns are carried as the variance, whose root is not rational.
Mean(elems) ==
    LET RECURSIVE Sum(_)
        Sum(k) == IF k = 0 THEN Zero ELSE Add(Sum(k - 1), elems[k])
    IN  Div(Sum(Len(elems)), I(Len(elems)))

Variance(elems) ==
    LET Squares(mean) ==
            [k \in 1..Len(elems) |->
                 Mul(Sub(elems[k], mean), Sub(elems[k], mean))]
        RECURSIVE Sum(_, _)
        Sum(sq, k) == IF k = 0 THEN Zero ELSE Add(Sum(sq, k - 1), sq[k])
    IN  Only({ Div(Sum(sq, Len(sq)), I(Len(elems) - 1))
               : sq \in {Squares(Mean(elems))} })

\* The locals of a GenerateRandom2D2DPoints call that has not started, the
\* error vectors before the first trial.
NoGenerate ==
    [points_data |-> PointsData, num_inliers |-> 0, cnt |-> 0,
     rejected |-> 0, accepted |-> <<>>, drawn |-> <<>>]
NoErrors ==
    [rotation_errors |-> <<>>, position_errors |-> <<>>,
     inlier_ratios |-> <<>>, rotation_errors_refrac |-> <<>>,
     position_errors_refrac |-> <<>>, inlier_ratios_refrac |-> <<>>]

\* The harness is not running.
NoEvaluate ==
    /\ pc = "idle"
    /\ eval_args = [num_points |-> 0, num_exps |-> 0, inlier_ratio |-> Zero]
    /\ noise = 0
    /\ trial = 0
    /\ datasets = <<>>
    /\ gen = NoGenerate
    /\ errors = NoErrors
    /\ estimate = <<>>
    /\ stats = <<>>
    /\ file = <<>>
    /\ log = <<>>

\* The testbed is not running.
NoTestbed ==
    /\ testbed = "idle"
    /\ recon = <<>>
    /\ extra_image_ids = {}
    /\ console = <<>>
    /\ output = <<>>

\* ------------------------------------------------------------ actions
\* One call of a mutator on the camera object; a failed CHECK ends the
\* process, after which nothing runs.
Call(op, args, r) ==
    /\ status = "running"
    /\ steps < MaxSteps
    /\ camera' = r.cam
    /\ status' = IF r.ok THEN "running" ELSE "aborted"
    /\ last' = [op |-> op, pre |-> camera, args |-> args, ret |-> r.ret]
    /\ steps' = steps + 1
    /\ UNCHANGED <<virtVars, harnessVars, testbedVars>>

CallSetModelId ==
    \E id \in ModelIdInputs :
        Call("SetModelId", [model_id |-> id], SetModelId(camera, id))

CallSetModelIdFromName ==
    \E name \in ModelNameInputs :
        Call("SetModelIdFromName", [model_name |-> name],
             SetModelIdFromName(camera, name))

CallSetRefracModelId ==
    \E id \in RefracModelIdInputs :
        Call("SetRefracModelId", [refrac_model_id |-> id],
             SetRefracModelId(camera, id))

CallSetRefracModelIdFromName ==
    \E name \in RefracModelNameInputs :
        Call("SetRefracModelIdFromName", [refrac_model_name |-> name],
             SetRefracModelIdFromName(camera, name))

CallSetFocalLength ==
    \E f \in DoubleInputs :
        Call("SetFocalLength", [value |-> f], SetFocalLength(camera, f))

CallSetFocalLengthX ==
    \E f \in DoubleInputs :
        Call("SetFocalLengthX", [value |-> f], SetFocalLengthX(camera, f))

CallSetFocalLengthY ==
    \E f \in DoubleInputs :
        Call("SetFocalLengthY", [value |-> f], SetFocalLengthY(camera, f))

CallSetPrincipalPointX ==
    \E p \in DoubleInputs :
        Call("SetPrincipalPointX", [value |-> p],
             SetPrincipalPointX(camera, p))

CallSetPrincipalPointY ==
    \E p \in DoubleInputs :
        Call("SetPrincipalPointY", [value |-> p],
             SetPrincipalPointY(camera, p))

CallSetParamsFromString ==
    \E s \in ParamsStringInputs :
        Call("SetParamsFromString", [string |-> s],
             SetParamsFromString(camera, s))

CallSetRefracParamsFromString ==
    \E s \in RefracParamsStringInputs :
        Call("SetRefracParamsFromString", [string |-> s],
             SetRefracParamsFromString(camera, s))

CallInitializeWithId ==
    \E id \in ModelIdInputs, wh \in SizeInputs :
        Call("InitializeWithId",
             [model_id |-> id, focal_length |-> I(2),
              width |-> wh[1], height |-> wh[2]],
             InitializeWithId(camera, id, I(2), wh[1], wh[2]))

CallInitializeWithName ==
    \E name \in ModelNameInputs, wh \in SizeInputs :
        Call("InitializeWithName",
             [model_name |-> name, focal_length |-> I(3),
              width |-> wh[1], height |-> wh[2]],
             InitializeWithName(camera, name, I(3), wh[1], wh[2]))

CallRescaleBy ==
    \E scale \in ScaleInputs :
        Call("Rescale(scale)", [scale |-> scale], RescaleBy(camera, scale))

CallRescaleTo ==
    \E wh \in NewSizeInputs :
        Call("Rescale(width,height)", [width |-> wh[1], height |-> wh[2]],
             RescaleTo(camera, wh[1], wh[2]))

Init ==
    /\ camera = Camera
    /\ status = "running"
    /\ last = [op |-> "Camera", pre |-> Camera, args |-> <<>>, ret |-> TRUE]
    /\ steps = 0
    /\ virtual_cameras = <<>>
    /\ virtual_from_reals = <<>>
    /\ svd_axis = <<One, Zero, Zero>>
    /\ NoEvaluate
    /\ NoTestbed

Next ==
    \/ CallSetModelId
    \/ CallSetModelIdFromName
    \/ CallSetRefracModelId
    \/ CallSetRefracModelIdFromName
    \/ CallSetFocalLength
    \/ CallSetFocalLengthX
    \/ CallSetFocalLengthY
    \/ CallSetPrincipalPointX
    \/ CallSetPrincipalPointY
    \/ CallSetParamsFromString
    \/ CallSetRefracParamsFromString
    \/ CallInitializeWithId
    \/ CallInitializeWithName
    \/ CallRescaleBy
    \/ CallRescaleTo

Spec == Init /\ [][Next]_vars

\* ------------------------------------------- virtual-camera synthesis
\* Configurations as the programs set them up: an intrinsic model with its
\* parameters and image size, then a refraction model with its parameters
\* (interface normals along, tilted against, orthogonal and opposite to
\* +Z, a normal of length 2, a decentered dome, and a flat port whose
\* parameters were never assigned).
Configure(model_name, params, width, height, refrac_name, refrac_params) ==
    LET c1 == InitializeWithName(Camera, model_name, One, width, height).cam
        c2 == SetParamsFromString(c1, params).cam
        c3 == SetRefracModelIdFromName(c2, refrac_name).cam
    IN  SetRefracParamsFromString(c3, refrac_params).cam

SimplePinholeInput == <<"SIMPLE_PINHOLE", <<"2", ",", "1", ",", "1">>, 2, 2>>
PinholeInput == <<"PINHOLE", <<"2", ",", "4", ",", "1", ",", "1">>, 2, 4>>
IntrinsicsInputs == {SimplePinholeInput, PinholeInput}

\* "0,0,1,1,1,1,2,4"  "0.6,0,0.8,1,1,1,2,4"  "1,0,0,1,1,1,2,4"
\* "0,0,-1,1,1,1,2,4"  "0,0,2,2,1,1,2,2"  "0,3,4,1,1,1,2,4"  ""
PortInputs ==
    << <<"FLATPORT",
         <<"0", ",", "0", ",", "1", ",", "1", ",", "1", ",", "1", ",",
           "2", ",", "4">>>>,
       <<"FLATPORT",
         <<"0", ".", "6", ",", "0", ",", "0", ".", "8", ",", "1", ",",
           "1", ",", "1", ",", "2", ",", "4">>>>,
       <<"FLATPORT",
         <<"1", ",", "0", ",", "0", ",", "1", ",", "1", ",", "1", ",",
           "2", ",", "4">>>>,
       <<"FLATPORT",
         <<"0", ",", "0", ",", "-", "1", ",", "1", ",", "1", ",", "1",
           ",", "2", ",", "4">>>>,
       <<"FLATPORT",
         <<"0", ",", "0", ",", "2", ",", "2", ",", "1", ",", "1", ",",
           "2", ",", "2">>>>,
       <<"DOMEPORT",
         <<"0", ",", "3", ",", "4", ",", "1", ",", "1", ",", "1", ",",
           "2", ",", "4">>>>,
       <<"FLATPORT",
         <<>>>> >>

CameraInputs ==
    { <<SimplePinholeInput, PortInputs[1]>>, <<PinholeInput, PortInputs[2]>>,
      <<PinholeInput, PortInputs[3]>>, <<SimplePinholeInput, PortInputs[4]>>,
      <<PinholeInput, PortInputs[5]>>, <<PinholeInput, PortInputs[6]>>,
      <<SimplePinholeInput, PortInputs[7]>> }

ConfiguredCameras ==
    { Configure(i[1][1], i[1][2], i[1][3], i[1][4], i[2][1], i[2][2]) :
          i \in CameraInputs }
    \cup { InitializeWithName(Camera, "PINHOLE", I(3), 2, 2).cam,
           InitializeWithName(Camera, "SIMPLE_PINHOLE", I(2), 2, 4).cam }

\* Unit axes orthogonal to +Z that the decomposition may return when the
\* refraction axis is -Z; it is not consulted for any other axis.
OrthoAxes == { <<One, Zero, Zero>>, <<Zero, I(-1), Zero>>,
               <<Dbl(3, 5), Dbl(4, 5), Zero>> }
OrthoAxesFor(c) ==
    IF IsCameraRefractive(c) /\ RefractionAxis(c) = Minus(UnitZ)
    THEN OrthoAxes
    ELSE { <<One, Zero, Zero>> }

PixelInputs == { <<One, One>>, <<I(2), Dbl(1, 2)>> }
DirectionInputs == { <<Zero, Zero>>, <<Dbl(1, 2), I(-1)>> }
PointBatches == UNION { [1..n -> PixelInputs] : n \in 0..MaxPoints }

\* One call of a const member function: the camera stays, the result is
\* recorded.
ConstCall(op, args, r) ==
    /\ status = "running"
    /\ steps < MaxCalls
    /\ status' = IF r.ok THEN "running" ELSE "aborted"
    /\ last' = [op |-> op, pre |-> camera, args |-> args, ret |-> r.ret]
    /\ steps' = steps + 1
    /\ UNCHANGED <<camera, svd_axis, harnessVars, testbedVars>>

CallVirtualCamera ==
    \E p \in PixelInputs, u \in DirectionInputs :
        /\ ConstCall("VirtualCamera", [image_point |-> p, cam_point |-> u],
                     VirtualCamera(camera, p, u))
        /\ UNCHANGED <<virtual_cameras, virtual_from_reals>>

CallComputeVirtual ==
    \E p \in PixelInputs :
        /\ IsCameraRefractive(camera)
        /\ ConstCall("ComputeVirtual", [point2D |-> p],
                     ComputeVirtual(camera, p, svd_axis))
        /\ UNCHANGED <<virtual_cameras, virtual_from_reals>>

CallComputeVirtuals ==
    \E points \in PointBatches :
        LET r == ComputeVirtuals(camera, points, virtual_cameras,
                                 virtual_from_reals, svd_axis)
        IN  /\ IsCameraRefractive(camera)
            /\ ConstCall("ComputeVirtuals", [points2D |-> points], r)
            /\ virtual_cameras' =
                   IF r.ok THEN r.ret.virtual_cameras ELSE virtual_cameras
            /\ virtual_from_reals' =
                   IF r.ok THEN r.ret.virtual_from_reals
                   ELSE virtual_from_reals

\* Points in front of the camera.
PointInputs == { <<Zero, Zero, One>>, <<One, Dbl(1, 2), I(2)>>,
                 <<I(-1), I(2), I(4)>> }

CallCamFromImgRefrac ==
    \E p \in PixelInputs :
        /\ ConstCall("CamFromImgRefrac", [image_point |-> p],
                     Returns(camera, CamFromImgRefrac(camera, p)))
        /\ UNCHANGED <<virtual_cameras, virtual_from_reals>>

\* The projection of a refractive camera is modelled for an interface
\* normal along +Z only; the calls on other ports are left out.
CallImgFromCamRefrac ==
    \E cam_point \in PointInputs :
        /\ IsCameraRefractive(camera) => RefractionAxis(camera) = UnitZ
        /\ ConstCall("ImgFromCamRefrac", [cam_point |-> cam_point],
                     Returns(camera, ImgFromCamRefrac(camera, cam_point)))
        /\ UNCHANGED <<virtual_cameras, virtual_from_reals>>

InitVirtual ==
    /\ camera \in ConfiguredCameras
    /\ status = "running"
    /\ last = [op |-> "Camera", pre |-> camera, args |-> <<>>, ret |-> TRUE]
    /\ steps = 0
    /\ virtual_cameras = <<>>
    /\ virtual_from_reals = <<>>
    /\ svd_axis \in OrthoAxesFor(camera)
    /\ NoEvaluate
    /\ NoTestbed

NextVirtual ==
    \/ CallVirtualCamera
    \/ CallComputeVirtual
    \/ CallComputeVirtuals
    \/ CallCamFromImgRefrac
    \/ CallImgFromCamRefrac

SpecVirtual == InitVirtual /\ [][NextVirtual]_vars

\* ---------------------------------------------------- inputs of Evaluate
\* Cameras as main configures them: a flat port facing along +Z.
HarnessCameras ==
    { c \in ConfiguredCameras :
          /\ IsCameraRefractive(c)
          /\ c.width_ = 2 /\ c.height_ = 2
          /\ RefractionAxis(c) = UnitZ }

\* num_points, num_exps and inlier_ratio of a call.
EvaluateInputs ==
    { [num_points |-> 2, num_exps |-> 1, inlier_ratio |-> Dbl(1, 2)],
      [num_points |-> 1, num_exps |-> 2, inlier_ratio |-> One],
      [num_points |-> 0, num_exps |-> 1, inlier_ratio |-> One] }

\* Random ground-truth poses: translations within [-2, 2], a rotation of
\* 22.62 degrees about Z.  No pixel of DrawInputs projects into view 2
\* under the second pose.
PoseInputs ==
    { Rigid3d(<< <<Dbl(12, 13), Dbl(-5, 13), Zero>>,
                <<Dbl(5, 13), Dbl(12, 13), Zero>>,
                <<Zero, Zero, One>> >>, <<Dbl(3, 2), Zero, I(-2)>>),
      Rigid3d(Rigid3dIdentity.rotation, <<I(2), One, I(-2)>>) }

\* What one loop iteration draws: a pixel in [0.5, Width - 0.5] x
\* [0.5, Height - 0.5], a depth in [0.5, 10], eight unit Gaussian values.
DrawInputs(c) ==
    { [point2D1_refrac |-> p, d |-> d,
       z |-> <<One, I(-1), One, I(-1), One, I(-1), One, I(-1)>>]
      : p \in { <<One, One>>,
                <<Dbl(1, 2), Sub(I(c.height_), Dbl(1, 2))>>,
                <<Sub(I(c.width_), Dbl(1, 2)), Dbl(1, 2)>> },
        d \in { Dbl(1, 2), I(10) } }

\* Answers of the two-view estimator on a dataset: the true pose with
\* every match an inlier, the true direction at unit baseline with the
\* last match an outlier, no pose and no inlier.
TwoViewGeometries(points_data) ==
    LET matches == [i \in 1..Len(points_data.points2D1) |-> <<i - 1, i - 1>>]
    IN  { [cam2_from_cam1 |-> points_data.cam2_from_cam1_gt,
           inlier_matches |-> matches],
          [cam2_from_cam1 |-> Rigid3dIdentity, inlier_matches |-> <<>>] }
        \cup { [cam2_from_cam1 |->
                    Rigid3d(points_data.cam2_from_cam1_gt.rotation,
                            Normalized(points_data.cam2_from_cam1_gt.translation)),
                inlier_matches |-> SubSeq(matches, 1, Len(matches) - 1)]
               : k \in {2} \cap (1..Len(matches)) }

\* ------------------------------------------------------ steps of Evaluate
Event(stage, i) == [noise |-> noise, stage |-> stage, trial |-> i]

\* The head of the loop over the noise levels, reached with level n.
NoiseLevel(n) ==
    /\ noise' = n
    /\ pc' = IF n <= Len(noise_levels) THEN "Generate" ELSE "done"
    /\ datasets' = <<>>
    /\ trial' = 0
    /\ errors' = NoErrors

OpenReport ==
    /\ pc = "Evaluate"
    /\ status = "running"
    /\ file' = << "# noise_level rot_error_mean rot_error_std ..." >>
    /\ NoiseLevel(1)
    /\ UNCHANGED <<camVars, virtVars, testbedVars, eval_args, gen, estimate, stats, log>>

\* The generation loop: a random ground truth and a fresh PointsData for
\* trial i, or on to the calibrated loop.
GenerateTrial ==
    /\ pc = "Generate"
    /\ status = "running"
    /\ IF trial < eval_args.num_exps
       THEN \E cam2_from_cam1 \in PoseInputs :
                /\ gen' = [k \in DOMAIN NoGenerate |->
                               IF k \in {"points_data", "num_inliers", "cnt"}
                               THEN GenerateBegin(eval_args.num_points,
                                                  cam2_from_cam1, PointsData,
                                                  eval_args.inlier_ratio)[k]
                               ELSE NoGenerate[k]]
                /\ pc' = "Sample"
                /\ UNCHANGED trial
       ELSE /\ trial' = 0
            /\ pc' = "EstimateCalibrated"
            /\ UNCHANGED gen
    /\ UNCHANGED <<camVars, virtVars, testbedVars, eval_args, noise, datasets, errors,
                   estimate, stats, file, log>>

SamplePoint_LoopsPastCount ==
    /\ pc = "Sample"
    /\ status = "running"
    /\ IF gen.cnt > eval_args.num_points
       THEN /\ pc' = "Synthesize"
            /\ UNCHANGED gen
       ELSE \E draw \in DrawInputs(camera) :
                LET sample == Sample(camera,
                                     gen.points_data.cam2_from_cam1_gt, draw)
                IN  /\ pc' = "Sample"
                    /\ IF SampleRejected(camera, sample.point2D2_refrac)
                       THEN gen' = [gen EXCEPT
                                !.rejected = IF @ < MaxRejections
                                             THEN @ + 1 ELSE @,
                                !.drawn = sample]
                       ELSE gen' = [gen EXCEPT
                                !.points_data =
                                    PushSample(@, AddNoise(sample, gen.cnt,
                                                   gen.num_inliers,
                                                   noise_levels[noise],
                                                   draw.z)),
                                !.cnt = @ + 1,
                                !.accepted =
                                    Append(@, [sample |-> sample,
                                               z |-> draw.z]),
                                !.drawn = sample]
    /\ UNCHANGED <<camVars, virtVars, testbedVars, eval_args, noise, trial, datasets, errors,
                   estimate, stats, file, log>>

\* One pass through the while loop of GenerateRandom2D2DPoints.
SamplePoint ==
    /\ pc = "Sample"
    /\ status = "running"
    /\ IF gen.cnt >= eval_args.num_points
       THEN /\ pc' = "Synthesize"
            /\ UNCHANGED gen
       ELSE \E draw \in DrawInputs(camera) :
                LET sample == Sample(camera,
                                     gen.points_data.cam2_from_cam1_gt, draw)
                IN  /\ pc' = "Sample"
                    /\ IF SampleRejected(camera, sample.point2D2_refrac)
                       THEN gen' = [gen EXCEPT
                                !.rejected = IF @ < MaxRejections
                                             THEN @ + 1 ELSE @,
                                !.drawn = sample]
                       ELSE gen' = [gen EXCEPT
                                !.points_data =
                                    PushSample(@, AddNoise(sample, gen.cnt,
                                                   gen.num_inliers,
                                                   noise_levels[noise],
                                                   draw.z)),
                                !.cnt = @ + 1,
                                !.accepted =
                                    Append(@, [sample |-> sample,
                                               z |-> draw.z]),
                                !.drawn = sample]
    /\ UNCHANGED <<camVars, virtVars, testbedVars, eval_args, noise, trial, datasets, errors,
                   estimate, stats, file, log>>

\* The two ComputeVirtuals calls, the return of GenerateRandom2D2DPoints
\* and the push_back of the dataset.
Synthesize ==
    /\ pc = "Synthesize"
    /\ status = "running"
    /\ LET r == SynthesizeVirtuals(camera, gen.points_data, svd_axis)
       IN  IF r.ok
           THEN /\ datasets' = Append(datasets, r.ret)
                /\ trial' = trial + 1
                /\ pc' = "Generate"
                /\ gen' = NoGenerate
                /\ log' = Append(log, Event("Generate", trial))
                /\ UNCHANGED status
           ELSE /\ status' = "aborted"
                /\ UNCHANGED <<datasets, trial, pc, gen, log>>
    /\ UNCHANGED <<camera, last, steps, virtVars, testbedVars, eval_args, noise, errors,
                   estimate, stats, file>>

EstimateCalibrated_SkipRefractive ==
    /\ pc = "EstimateCalibrated"
    /\ status = "running"
    /\ IF trial < eval_args.num_exps
       THEN \E two_view_geometry \in TwoViewGeometries(datasets[trial + 1]) :
                /\ estimate' = EstimateRelativePose(camera,
                                   datasets[trial + 1], FALSE,
                                   two_view_geometry)
                /\ pc' = "ErrorCalibrated"
                /\ log' = Append(log, Event("EstimateCalibrated", trial))
                /\ UNCHANGED trial
       ELSE /\ trial' = 0
            /\ pc' = "Aggregate"
            /\ UNCHANGED <<estimate, log>>
    /\ UNCHANGED <<camVars, virtVars, testbedVars, eval_args, noise, datasets, gen, errors,
                   stats, file>>

\* The calibrated loop: the estimate of trial i, then its error.
EstimateCalibrated ==
    /\ pc = "EstimateCalibrated"
    /\ status = "running"
    /\ IF trial < eval_args.num_exps
       THEN \E two_view_geometry \in TwoViewGeometries(datasets[trial + 1]) :
                /\ estimate' = EstimateRelativePose(camera,
                                   datasets[trial + 1], FALSE,
                                   two_view_geometry)
                /\ pc' = "ErrorCalibrated"
                /\ log' = Append(log, Event("EstimateCalibrated", trial))
                /\ UNCHANGED trial
       ELSE /\ trial' = 0
            /\ pc' = "EstimateRefractive"
            /\ UNCHANGED <<estimate, log>>
    /\ UNCHANGED <<camVars, virtVars, testbedVars, eval_args, noise, datasets, gen, errors,
                   stats, file>>

ErrorCalibrated_SkipsFailedTrial ==
    /\ pc = "ErrorCalibrated"
    /\ status = "running"
    /\ LET e == PoseError(datasets[trial + 1].cam2_from_cam1_gt,
                          estimate.cam2_from_cam1, FALSE)
       IN  IF estimate.num_inliers = 0
           THEN UNCHANGED errors
           ELSE errors' = [errors EXCEPT
               !.rotation_errors = Append(@, e.rotation_error),
               !.position_errors = Append(@, e.position_error),
               !.inlier_ratios =
                   Append(@, Div(I(estimate.num_inliers),
                                 I(eval_args.num_points)))]
    /\ trial' = trial + 1
    /\ pc' = "EstimateCalibrated"
    /\ log' = Append(log, Event("ErrorCalibrated", trial))
    /\ estimate' = <<>>
    /\ UNCHANGED <<camVars, virtVars, testbedVars, eval_args, noise, datasets, gen, stats,
                   file>>

ErrorCalibrated ==
    /\ pc = "ErrorCalibrated"
    /\ status = "running"
    /\ LET e == PoseError(datasets[trial + 1].cam2_from_cam1_gt,
                          estimate.cam2_from_cam1, FALSE)
       IN  errors' = [errors EXCEPT
               !.rotation_errors = Append(@, e.rotation_error),
               !.position_errors = Append(@, e.position_error),
               !.inlier_ratios =
                   Append(@, Div(I(estimate.num_inliers),
                                 I(eval_args.num_points)))]
    /\ trial' = trial + 1
    /\ pc' = "EstimateCalibrated"
    /\ log' = Append(log, Event("ErrorCalibrated", trial))
    /\ estimate' = <<>>
    /\ UNCHANGED <<camVars, virtVars, testbedVars, eval_args, noise, datasets, gen, stats,
                   file>>

EstimateRefractive_WritesCamera ==
    /\ pc = "EstimateRefractive"
    /\ status = "running"
    /\ IF trial < eval_args.num_exps
       THEN \E two_view_geometry \in TwoViewGeometries(datasets[trial + 1]) :
                /\ estimate' = EstimateRelativePose(camera,
                                   datasets[trial + 1], TRUE,
                                   two_view_geometry)
                /\ pc' = "ErrorRefractive"
                /\ log' = Append(log, Event("EstimateRefractive", trial))
                /\ camera' = IF datasets[trial + 1].virtual_cameras1 = <<>>
                             THEN camera
                             ELSE datasets[trial + 1].virtual_cameras1[1]
                /\ UNCHANGED trial
       ELSE /\ trial' = 0
            /\ pc' = "Aggregate"
            /\ UNCHANGED <<camera, estimate, log>>
    /\ UNCHANGED <<status, last, steps, virtVars, testbedVars, eval_args, noise, datasets,
                   gen, errors, stats, file>>

\* The refractive loop: the estimate of trial i, then its error.
EstimateRefractive ==
    /\ pc = "EstimateRefractive"
    /\ status = "running"
    /\ IF trial < eval_args.num_exps
       THEN \E two_view_geometry \in TwoViewGeometries(datasets[trial + 1]) :
                /\ estimate' = EstimateRelativePose(camera,
                                   datasets[trial + 1], TRUE,
                                   two_view_geometry)
                /\ pc' = "ErrorRefractive"
                /\ log' = Append(log, Event("EstimateRefractive", trial))
                /\ UNCHANGED trial
       ELSE /\ trial' = 0
            /\ pc' = "Aggregate"
            /\ UNCHANGED <<estimate, log>>
    /\ UNCHANGED <<camVars, virtVars, testbedVars, eval_args, noise, datasets, gen, errors,
                   stats, file>>

ErrorRefractive_NormalizesDataset ==
    /\ pc = "ErrorRefractive"
    /\ status = "running"
    /\ LET e == PoseError(datasets[trial + 1].cam2_from_cam1_gt,
                          Rigid3d(estimate.cam2_from_cam1.rotation,
                                  Normalized(
                                      estimate.cam2_from_cam1.translation)),
                          FALSE)
       IN  errors' = [errors EXCEPT
               !.rotation_errors_refrac = Append(@, e.rotation_error),
               !.position_errors_refrac = Append(@, e.position_error),
               !.inlier_ratios_refrac =
                   Append(@, Div(I(estimate.num_inliers),
                                 I(eval_args.num_points)))]
    /\ trial' = trial + 1
    /\ pc' = "EstimateRefractive"
    /\ log' = Append(log, Event("ErrorRefractive", trial))
    /\ estimate' = <<>>
    /\ datasets' = [datasets EXCEPT ![trial + 1].cam2_from_cam1_gt.translation =
                                     Normalized(@)]
    /\ UNCHANGED <<camVars, virtVars, testbedVars, eval_args, noise, gen, stats, file>>

ErrorRefractive ==
    /\ pc = "ErrorRefractive"
    /\ status = "running"
    /\ LET e == PoseError(datasets[trial + 1].cam2_from_cam1_gt,
                          Rigid3d(estimate.cam2_from_cam1.rotation,
                                  Normalized(
                                      estimate.cam2_from_cam1.translation)),
                          FALSE)
       IN  errors' = [errors EXCEPT
               !.rotation_errors_refrac = Append(@, e.rotation_error),
               !.position_errors_refrac = Append(@, e.position_error),
               !.inlier_ratios_refrac =
                   Append(@, Div(I(estimate.num_inliers),
                                 I(eval_args.num_points)))]
    /\ trial' = trial + 1
    /\ pc' = "EstimateRefractive"
    /\ log' = Append(log, Event("ErrorRefractive", trial))
    /\ estimate' = <<>>
    /\ UNCHANGED <<camVars, virtVars, testbedVars, eval_args, noise, datasets, gen, stats,
                   file>>

\* The statistics of the level (the elapsed times, which are measurements,
\* are left out of the row).
Aggregate ==
    /\ pc = "Aggregate"
    /\ status = "running"
    /\ stats' =
           [noise |-> noise_levels[noise],
            rot_error_mean |-> Mean(errors.rotation_errors),
            rot_error_var |-> Variance(errors.rotation_errors),
            pos_error_mean |-> Mean(errors.position_errors),
            pos_error_var |-> Variance(errors.position_errors),
            rot_error_refrac_mean |-> Mean(errors.rotation_errors_refrac),
            rot_error_refrac_var |-> Variance(errors.rotation_errors_refrac),
            pos_error_refrac_mean |-> Mean(errors.position_errors_refrac),
            pos_error_refrac_var |-> Variance(errors.position_errors_refrac),
            inlier_ratio_mean |-> Mean(errors.inlier_ratios),
            inlier_ratio_refrac_mean |-> Mean(errors.inlier_ratios_refrac)]
    /\ pc' = "Emit"
    /\ log' = Append(log, Event("Aggregate", eval_args.num_exps))
    /\ UNCHANGED <<camVars, virtVars, testbedVars, eval_args, noise, trial, datasets, gen,
                   errors, estimate, file>>

Emit_OverwritesLastRow ==
    /\ pc = "Emit"
    /\ status = "running"
    /\ file' = IF Len(file) > 1 THEN [file EXCEPT ![Len(file)] = stats]
               ELSE Append(file, stats)
    /\ log' = Append(log, Event("Emit", eval_args.num_exps))
    /\ NoiseLevel(noise + 1)
    /\ stats' = <<>>
    /\ UNCHANGED <<camVars, virtVars, testbedVars, eval_args, gen, estimate>>

\* The row of the level, then the next level or the end of Evaluate.
Emit ==
    /\ pc = "Emit"
    /\ status = "running"
    /\ file' = Append(file, stats)
    /\ log' = Append(log, Event("Emit", eval_args.num_exps))
    /\ NoiseLevel(noise + 1)
    /\ stats' = <<>>
    /\ UNCHANGED <<camVars, virtVars, testbedVars, eval_args, gen, estimate>>

InitHarness ==
    /\ camera \in HarnessCameras
    /\ status = "running"
    /\ last = [op |-> "Camera", pre |-> camera, args |-> <<>>, ret |-> TRUE]
    /\ steps = 0
    /\ virtual_cameras = <<>>
    /\ virtual_from_reals = <<>>
    /\ svd_axis = <<One, Zero, Zero>>
    /\ pc = "Evaluate"
    /\ eval_args \in EvaluateInputs
    /\ noise = 0
    /\ trial = 0
    /\ datasets = <<>>
    /\ gen = NoGenerate
    /\ errors = NoErrors
    /\ estimate = <<>>
    /\ stats = <<>>
    /\ file = <<>>
    /\ log = <<>>
    /\ NoTestbed

NextHarness ==
    \/ OpenReport
    \/ GenerateTrial
    \/ SamplePoint
    \/ Synthesize
    \/ EstimateCalibrated
    \/ ErrorCalibrated
    \/ EstimateRefractive
    \/ ErrorRefractive
    \/ Aggregate
    \/ Emit

SpecHarness == InitHarness /\ [][NextHarness]_vars

\* Evaluate has a next step: the run has not aborted and has not returned.
\* Every stage has one (its action is total at its pc and changes pc, the
\* trial, the noise level or the generator's locals), so this is
\* ENABLED <<NextHarness>>_vars.
Running == status = "running" /\ pc # "done"

\* Some draw of the current generation call passes the acceptance test.
Acceptable ==
    \E draw \in DrawInputs(camera) :
        ~SampleRejected(camera,
                        Sample(camera, gen.points_data.cam2_from_cam1_gt,
                               draw).point2D2_refrac)

\* A pass of the while loop can accept: ENABLED <<AcceptPoint>>_vars.
CanAccept ==
    /\ pc = "Sample"
    /\ status = "running"
    /\ gen.cnt < eval_args.num_points
    /\ Acceptable
AcceptPoint == SamplePoint /\ gen'.cnt = gen.cnt + 1

\* The single thread of Evaluate keeps running (weak fairness of
\* NextHarness), and the generator keeps producing acceptable samples when
\* there are any (strong fairness of AcceptPoint). Each condition is
\* written out with its enabling condition in place of ENABLED.
SpecHarnessFair ==
    /\ SpecHarness
    /\ ([]<>~Running \/ []<><<NextHarness>>_vars)
    /\ (<>[]~CanAccept \/ []<><<AcceptPoint>>_vars)

\* ------------------------------------------------ camera configuration
ModelSelected(c) == ExistsCameraModelWithId(c.model_id_)
AllZero(v) == \A i \in 1..Len(v) : v[i] = Zero
Completed(ops) == last.op \in ops /\ status = "running"
RescaleOps == {"Rescale(scale)", "Rescale(width,height)"}

\* C1: in every reachable state, when an intrinsic variant is selected the
\* intrinsic parameter vector has that variant's canonical parameter count,
\* and when a refraction variant is selected the refraction parameter
\* vector has that variant's canonical parameter count.
C1_ParamsLengthMatchesModel ==
    /\ ModelSelected(camera) =>
           Len(camera.params_) = CameraModelNumParams(camera.model_id_)
    /\ IsCameraRefractive(camera) =>
           Len(camera.refrac_params_) =
               CameraRefracModelNumParams(camera.refrac_model_id_)

C1_Witness ==
    /\ Completed({"SetModelId"})
    /\ IsCameraRefractive(camera)
    /\ camera.model_id_ = 1
    /\ Len(camera.params_) = 4
    /\ Len(last.pre.params_) = 3
    /\ Len(camera.refrac_params_) = 8

\* C2 (as claimed): after a successful model selection the corresponding
\* parameter vector has the new variant's canonical length and every
\* entry of it is zero, whatever the vector held before.
C2_SelectionZeroFills ==
    /\ Completed({"SetModelId", "SetModelIdFromName"}) =>
           /\ Len(camera.params_) = CameraModelNumParams(camera.model_id_)
           /\ AllZero(camera.params_)
    /\ Completed({"SetRefracModelId", "SetRefracModelIdFromName"}) =>
           /\ Len(camera.refrac_params_) =
                  CameraRefracModelNumParams(camera.refrac_model_id_)
           /\ AllZero(camera.refrac_params_)

\* The selection that `last` records named no variant of the catalog.
SelectionRejected ==
    \/ /\ last.op \in {"SetModelId", "InitializeWithId"}
       /\ ~ExistsCameraModelWithId(last.args.model_id)
    \/ /\ last.op \in {"SetModelIdFromName", "InitializeWithName"}
       /\ ~ExistsCameraModelWithName(last.args.model_name)
    \/ /\ last.op = "SetRefracModelId"
       /\ ~ExistsCameraRefracModelWithId(last.args.refrac_model_id)
    \/ /\ last.op = "SetRefracModelIdFromName"
       /\ ~ExistsCameraRefracModelWithName(last.args.refrac_model_name)

\* C3: selecting a model by an unrecognized id or name ends the process in
\* the failed check, and the camera is then field for field what it was
\* before the call.
C3_UnknownModelRejectedUnchanged ==
    SelectionRejected => status = "aborted" /\ camera = last.pre

C3_Witness ==
    /\ SelectionRejected
    /\ last.op = "InitializeWithName"
    /\ status = "aborted"
    /\ ModelSelected(last.pre)
    /\ ~AllZero(last.pre.params_)
    /\ last.pre.width_ # last.args.width

\* C4: SetParamsFromString / SetRefracParamsFromString return true exactly
\* when the parsed vector passes the selected variant's validator, and then
\* only the parameter vector is replaced by the parsed vector; otherwise
\* the camera is exactly what it was before the call.
C4_SetParamsFromStringAllOrNothing ==
    /\ last.op = "SetParamsFromString" =>
          LET v == CSVToVector(last.args.string)
              valid == CameraModelVerifyParams(last.pre.model_id_, v)
          IN  /\ status = "running"
              /\ last.ret = valid
              /\ camera = IF valid THEN [last.pre EXCEPT !.params_ = v]
                          ELSE last.pre
    /\ last.op = "SetRefracParamsFromString" =>
          LET v == CSVToVector(last.args.string)
              valid == CameraRefracModelVerifyParams(
                           last.pre.refrac_model_id_, v)
          IN  /\ status = "running"
              /\ last.ret = valid
              /\ camera = IF valid
                          THEN [last.pre EXCEPT !.refrac_params_ = v]
                          ELSE last.pre

C4_Witness ==
    /\ last.op = "SetParamsFromString"
    /\ last.ret = FALSE
    /\ ModelSelected(last.pre)
    /\ ~AllZero(last.pre.params_)
    /\ Len(CSVToVector(last.args.string)) > 0
    /\ camera.params_ = last.pre.params_

\* The ratios a completed Rescale call worked with: new size over old size.
RescaleRatioX == Div(I(camera.width_), I(last.pre.width_))
RescaleRatioY == Div(I(camera.height_), I(last.pre.height_))

\* ------------------------------------------- virtual-camera synthesis
\* C5 (as claimed): after ComputeVirtuals both output sequences have
\* exactly as many elements as points2D, whatever they held before the
\* call, and their i-th elements are the result of ComputeVirtual on the
\* i-th pixel.
C5_OutputsMatchPoints ==
    Completed({"ComputeVirtuals"}) =>
        /\ Len(virtual_cameras) = Len(last.args.points2D)
        /\ Len(virtual_from_reals) = Len(last.args.points2D)
        /\ \A i \in 1..Len(last.args.points2D) :
               \A r \in {ComputeVirtual(camera, last.args.points2D[i],
                                        svd_axis)} :
                   /\ virtual_cameras[i] = r.ret.virtual_camera
                   /\ virtual_from_reals[i] = r.ret.virtual_from_real

\* C6: for a source camera with one or two focal-length parameters,
\* VirtualCamera(p, u) is a SIMPLE_PINHOLE camera whose focal length f is
\* the source's MeanFocalLength(), whose principal point c satisfies
\* f*u + c = p in both coordinates, and whose width and height are the
\* source's (arithmetic on exact values).
C6_VirtualCameraReproducesPixel ==
    Completed({"VirtualCamera"}) /\ Len(FocalLengthIdxs(camera)) \in {1, 2} =>
        /\ last.ret.model_id_ = CameraModelNameToId("SIMPLE_PINHOLE")
        /\ Len(last.ret.params_) = 3
        /\ Len(FocalLengthIdxs(last.ret)) = 1
        /\ FocalLength(last.ret) = MeanFocalLength(camera)
        /\ Add(Mul(FocalLength(last.ret), last.args.cam_point[1]),
               PrincipalPointX(last.ret)) = last.args.image_point[1]
        /\ Add(Mul(FocalLength(last.ret), last.args.cam_point[2]),
               PrincipalPointY(last.ret)) = last.args.image_point[2]
        /\ last.ret.width_ = camera.width_
        /\ last.ret.height_ = camera.height_

C6_Witness ==
    /\ Completed({"VirtualCamera"})
    /\ Len(FocalLengthIdxs(camera)) = 2
    /\ FocalLengthX(camera) # FocalLengthY(camera)
    /\ last.args.cam_point[1] # Zero
    /\ last.args.cam_point[2] # Zero
    /\ PrincipalPointX(last.ret) # last.args.image_point[1]
    /\ camera.width_ # camera.height_

\* C7 (as claimed): for every pixel the transform returned by
\* ComputeVirtual has the rotation VirtualFromRealRotation() and the rotated
\* negated virtual camera centre as translation, and maps the virtual
\* camera centre of the pixel to the origin.
C7_VirtualFromRealPlacesEveryCentre ==
    Completed({"ComputeVirtual"}) =>
        \A centre \in {VirtualCameraCenter(camera,
                           CamFromImgRefrac(camera, last.args.point2D))} :
            /\ last.ret.virtual_from_real.rotation =
                   VirtualFromRealRotation(camera, svd_axis)
            /\ last.ret.virtual_from_real.translation =
                   Rotate(last.ret.virtual_from_real.rotation, Minus(centre))
            /\ Apply(last.ret.virtual_from_real, centre) = ZeroVec

\* C7 (amended): for every pixel the transform returned by ComputeVirtual
\* has the rotation VirtualFromRealRotation() and the rotated negated
\* virtual camera centre as translation; when that centre is finite the
\* transform maps it to the origin (a refracted ray parallel to the
\* refraction axis has a non-finite centre and translation).
C7_VirtualFromRealPlacesFiniteCentre ==
    Completed({"ComputeVirtual"}) =>
        \A centre \in {VirtualCameraCenter(camera,
                           CamFromImgRefrac(camera, last.args.point2D))} :
            /\ last.ret.virtual_from_real.rotation =
                   VirtualFromRealRotation(camera, svd_axis)
            /\ last.ret.virtual_from_real.translation =
                   Rotate(last.ret.virtual_from_real.rotation, Minus(centre))
            /\ FiniteVec(centre) =>
                   Apply(last.ret.virtual_from_real, centre) = ZeroVec

C7_Witness ==
    /\ Completed({"ComputeVirtual"})
    /\ FiniteVec(last.ret.virtual_from_real.translation)
    /\ last.ret.virtual_from_real.translation # ZeroVec
    /\ last.ret.virtual_from_real.rotation[1] # <<One, Zero, Zero>>
    /\ Rotate(last.ret.virtual_from_real.rotation,
              last.ret.virtual_from_real.translation)
           # last.ret.virtual_from_real.translation

\* C8: for every configured refraction axis direction (a unit vector:
\* along, tilted against, orthogonal or opposite to +Z),
\* VirtualFromRealRotation() applied to RefractionAxis() is (0, 0, 1).
C8_RotationMapsAxisToZ ==
    IsCameraRefractive(camera)
        /\ Dot(RefractionAxis(camera), RefractionAxis(camera)) = One =>
            Rotate(VirtualFromRealRotation(camera, svd_axis),
                   RefractionAxis(camera)) = UnitZ

C8_Witness ==
    /\ Completed({"ComputeVirtual"})
    /\ RefractionAxis(camera) = Minus(UnitZ)
    /\ svd_axis # <<One, Zero, Zero>>
    /\ Rotate(last.ret.virtual_from_real.rotation, RefractionAxis(camera))
           = UnitZ

\* ------------------------------------------------------------ rescaling
\* C9: a completed Rescale(width, height) stores the given size, a
\* completed Rescale(scale) stores round(scale * old size); the principal
\* point is multiplied by new/old size per axis; with two focal lengths fx
\* is scaled by the x ratio and fy by the y ratio, with one focal length
\* it is scaled by the mean of the two ratios.
C9_RescaleScalesIntrinsics ==
    Completed(RescaleOps) =>
        /\ last.op = "Rescale(width,height)" =>
               /\ camera.width_ = last.args.width
               /\ camera.height_ = last.args.height
        /\ last.op = "Rescale(scale)" =>
               /\ Less(Zero, last.args.scale)
               /\ camera.width_ =
                      Round(Mul(last.args.scale, I(last.pre.width_)))
               /\ camera.height_ =
                      Round(Mul(last.args.scale, I(last.pre.height_)))
        /\ PrincipalPointX(camera) =
               Mul(RescaleRatioX, PrincipalPointX(last.pre))
        /\ PrincipalPointY(camera) =
               Mul(RescaleRatioY, PrincipalPointY(last.pre))
        /\ Len(FocalLengthIdxs(camera)) = 2 =>
               /\ FocalLengthX(camera) =
                      Mul(RescaleRatioX, FocalLengthX(last.pre))
               /\ FocalLengthY(camera) =
                      Mul(RescaleRatioY, FocalLengthY(last.pre))
        /\ Len(FocalLengthIdxs(camera)) = 1 =>
               FocalLength(camera) =
                   Mul(Div(Add(RescaleRatioX, RescaleRatioY), I(2)),
                       FocalLength(last.pre))

C9_Witness ==
    /\ Completed({"Rescale(scale)"})
    /\ Len(FocalLengthIdxs(camera)) = 1
    /\ last.pre.width_ > 0
    /\ last.pre.height_ > 0
    /\ RescaleRatioX # RescaleRatioY
    /\ RescaleRatioX # last.args.scale
    /\ FocalLength(last.pre) # Zero
    /\ PrincipalPointX(last.pre) # Zero

\* C10: both Rescale overloads leave the refraction model id, every
\* refraction parameter, the intrinsic model id, the extra (distortion)
\* parameters and the camera id as they were.
C10_RescaleFrame ==
    last.op \in RescaleOps =>
        /\ camera.refrac_model_id_ = last.pre.refrac_model_id_
        /\ camera.refrac_params_ = last.pre.refrac_params_
        /\ camera.model_id_ = last.pre.model_id_
        /\ camera.camera_id_ = last.pre.camera_id_
        /\ Len(camera.params_) = Len(last.pre.params_)
        /\ \A k \in 1..Len(ExtraParamsIdxs(camera)) :
               camera.params_[ExtraParamsIdxs(camera)[k]] =
                   last.pre.params_[ExtraParamsIdxs(camera)[k]]

C10_Witness ==
    /\ Completed(RescaleOps)
    /\ IsCameraRefractive(camera)
    /\ ~AllZero(camera.refrac_params_)
    /\ camera.width_ # last.pre.width_
    /\ last.pre.width_ > 0

\* --------------------------------------------------- dataset generation
\* The step on which GenerateRandom2D2DPoints returns, and the dataset it
\* hands back.
GenerateReturns == pc = "Synthesize" /\ pc' = "Generate"
Returned == datasets'[Len(datasets')]
InLoop == pc \in {"Sample", "Synthesize"}
PixelLengths(pd) ==
    { Len(pd.points2D1), Len(pd.points2D1_refrac),
      Len(pd.points2D2), Len(pd.points2D2_refrac) }
VirtualLengths(pd) ==
    { Len(pd.virtual_cameras1), Len(pd.virtual_from_reals1),
      Len(pd.virtual_cameras2), Len(pd.virtual_from_reals2) }
Shifted(p, s, z1, z2) == <<Add(p[1], Mul(s, z1)), Add(p[2], Mul(s, z2))>>
\* The four pixels at index i are those of the accepted sample a, moved by
\* noise of standard deviation s.
PixelsOf(pd, i, a, s) ==
    /\ pd.points2D1[i] = Shifted(a.sample.point2D1, s, a.z[1], a.z[2])
    /\ pd.points2D1_refrac[i] =
           Shifted(a.sample.point2D1_refrac, s, a.z[3], a.z[4])
    /\ pd.points2D2[i] = Shifted(a.sample.point2D2, s, a.z[5], a.z[6])
    /\ pd.points2D2_refrac[i] =
           Shifted(a.sample.point2D2_refrac, s, a.z[7], a.z[8])
\* The virtual cameras and transforms at index i are those of the stored
\* refraction-corrected pixels at index i.
VirtualsOf(pd, i) ==
    LET v1 == ComputeVirtual(camera, pd.points2D1_refrac[i], svd_axis).ret
        v2 == ComputeVirtual(camera, pd.points2D2_refrac[i], svd_axis).ret
    IN  /\ pd.virtual_cameras1[i] = v1.virtual_camera
        /\ pd.virtual_from_reals1[i] = v1.virtual_from_real
        /\ pd.virtual_cameras2[i] = v2.virtual_camera
        /\ pd.virtual_from_reals2[i] = v2.virtual_from_real

\* C11: while the sampling loop runs the four pixel sequences have one
\* length, the number of samples accepted so far; when
\* GenerateRandom2D2DPoints returns on a fresh PointsData the four pixel
\* and the four virtual sequences have exactly num_points elements and
\* index i of each of them belongs to the i-th accepted sample.
C11_SequencesAligned ==
    /\ [](InLoop => /\ PixelLengths(gen.points_data) = {gen.cnt}
                    /\ Len(gen.accepted) = gen.cnt)
    /\ [][GenerateReturns =>
            /\ PixelLengths(Returned) \cup VirtualLengths(Returned)
                   = {eval_args.num_points}
            /\ \A i \in 1..eval_args.num_points :
                   /\ \E s \in {Zero, noise_levels[noise], I(OutlierNoise)} :
                          PixelsOf(Returned, i, gen.accepted[i], s)
                   /\ VirtualsOf(Returned, i)]_vars
\* A returned dataset of two different samples, generated after a
\* rejection at a noise level above zero.
C11_Witness ==
    /\ pc = "Generate"
    /\ noise = 2
    /\ Len(datasets) = 1
    /\ Len(datasets[1].points2D1) = 2
    /\ Len(datasets[1].virtual_from_reals2) = 2
    /\ datasets[1].points2D2_refrac[1] # datasets[1].points2D2_refrac[2]

\* A finite pixel inside [0, Width] x [0, Height].
InsideImage(p) ==
    /\ IsFinite(p[1]) /\ IsFinite(p[2])
    /\ 0 <= p[1].n /\ p[1].n <= camera.width_ * p[1].d
    /\ 0 <= p[2].n /\ p[2].n <= camera.height_ * p[2].d

\* C12: in every iteration of the sampling loop that draws a sample, the
\* sample is counted and appended only if its noise-free refractive
\* projection into view 2 is finite and inside the image; a sample outside
\* leaves the four sequences and the count as they were.
C12_AcceptedOnlyInsideImage ==
    [][pc = "Sample" /\ pc' = "Sample" =>
           /\ gen'.cnt \in {gen.cnt, gen.cnt + 1}
           /\ ~InsideImage(gen'.drawn.point2D2_refrac) =>
                  /\ gen'.cnt = gen.cnt
                  /\ gen'.points_data = gen.points_data
                  /\ gen'.accepted = gen.accepted]_vars
\* After one accepted sample, a drawn sample that projects to a finite
\* pixel outside the image has been rejected.
C12_Witness ==
    /\ pc = "Sample"
    /\ gen.cnt = 1
    /\ gen.rejected >= 1
    /\ Len(gen.points_data.points2D2_refrac) = 1
    /\ IsFinite(gen.drawn.point2D2_refrac[1])
    /\ IsFinite(gen.drawn.point2D2_refrac[2])
    /\ ~InsideImage(gen.drawn.point2D2_refrac)

\* The standard deviation the point of index i (from 1) of a dataset of
\* the current call is to get.
ExpectedNoise(i) ==
    IF i - 1 < (eval_args.num_points * eval_args.inlier_ratio.n)
                   \div eval_args.inlier_ratio.d
    THEN noise_levels[noise]
    ELSE I(200)

\* C13: of the accepted points, those with index below floor(N * r) carry
\* noise of the level's standard deviation on all four pixels (none at
\* level 0) and those from floor(N * r) on carry noise of standard
\* deviation 200, however many samples were rejected in between.
C13_NoiseByAcceptedIndex ==
    InLoop => \A i \in 1..gen.cnt :
                  PixelsOf(gen.points_data, i, gen.accepted[i],
                           ExpectedNoise(i))
\* Two points at level 0.2 with r = 1/2 and a rejected sample: the first
\* an inlier, the second an outlier.
C13_Witness ==
    /\ pc = "Synthesize"
    /\ noise = 2
    /\ gen.cnt = 2
    /\ gen.num_inliers = 1
    /\ gen.rejected >= 1
    /\ PixelsOf(gen.points_data, 1, gen.accepted[1], Dbl(1, 5))
    /\ PixelsOf(gen.points_data, 2, gen.accepted[2], I(200))

\* C14: no virtual camera exists while the sampling loop runs; the two
\* ComputeVirtuals calls run once all num_points pixels are stored with
\* their noise, and virtual camera and transform i of either view are
\* those of the stored, noised refraction-corrected pixel i.
C14_VirtualsFromStoredPixels ==
    /\ [](InLoop => VirtualLengths(gen.points_data) = {0})
    /\ [][GenerateReturns =>
            /\ gen.cnt = eval_args.num_points
            /\ \A i \in 1..eval_args.num_points :
                   /\ PixelsOf(gen.points_data, i, gen.accepted[i],
                               ExpectedNoise(i))
                   /\ Returned.points2D1_refrac[i] =
                          gen.points_data.points2D1_refrac[i]
                   /\ Returned.points2D2_refrac[i] =
                          gen.points_data.points2D2_refrac[i]
                   /\ VirtualsOf(Returned, i)]_vars
\* A returned dataset at level 0.2 whose first view-1 pixel is none of the
\* drawn pixels and whose first virtual camera is that of the stored
\* pixel and of no drawn pixel.
C14_Witness ==
    /\ pc = "Generate"
    /\ noise = 2
    /\ Len(datasets) = 1
    /\ Len(datasets[1].virtual_cameras1) = 2
    /\ VirtualsOf(datasets[1], 1)
    /\ \A d \in DrawInputs(camera) :
           /\ datasets[1].points2D1_refrac[1] # d.point2D1_refrac
           /\ datasets[1].virtual_cameras1[1] #
                  ComputeVirtual(camera, d.point2D1_refrac,
                                 svd_axis).ret.virtual_camera

\* ------------------------------------------------------ stages of a level
StageRank(stage) ==
    CASE stage = "Generate" -> 1
      [] stage \in {"EstimateCalibrated", "ErrorCalibrated"} -> 2
      [] stage \in {"EstimateRefractive", "ErrorRefractive"} -> 3
      [] stage = "Aggregate" -> 4
      [] stage = "Emit" -> 5
TrialStages ==
    { "Generate", "EstimateCalibrated", "ErrorCalibrated",
      "EstimateRefractive", "ErrorRefractive" }
\* Stage st has run for trial i of level n before position k of the log.
RanBefore(k, n, st, i) ==
    \E j \in 1..(k - 1) : log[j] = [noise |-> n, stage |-> st, trial |-> i]

\* C15 as stated: the stages of a level follow each other with error
\* computation a stage of its own after both estimation stages, so that
\* no error is computed before the refractive estimator has run on every
\* trial of the level.
C15_ErrorsAfterAllEstimation ==
    \A k \in 1..Len(log) :
        log[k].stage \in {"ErrorCalibrated", "ErrorRefractive"} =>
            \A i \in 0..(eval_args.num_exps - 1) :
                RanBefore(k, log[k].noise, "EstimateRefractive", i)

\* C15: for every noise level the stages Generate, EstimateCalibrated,
\* EstimateRefractive, Aggregate, Emit run in this order, each over all
\* trials before the next begins; the error of a trial is computed inside
\* the estimation stage of its mode, right after that trial's estimate;
\* the row is emitted last, after every stage has run for every trial.
C15_StagesInOrder ==
    /\ \A k \in 1..(Len(log) - 1) :
           \/ /\ log[k].stage # "Emit"
              /\ log[k + 1].noise = log[k].noise
              /\ StageRank(log[k].stage) <= StageRank(log[k + 1].stage)
           \/ /\ log[k].stage = "Emit"
              /\ log[k + 1].noise = log[k].noise + 1
    /\ \A k \in 1..Len(log) :
           /\ log[k].stage = "ErrorCalibrated" =>
                  k > 1 /\ log[k - 1] =
                               [log[k] EXCEPT !.stage = "EstimateCalibrated"]
           /\ log[k].stage = "ErrorRefractive" =>
                  k > 1 /\ log[k - 1] =
                               [log[k] EXCEPT !.stage = "EstimateRefractive"]
           /\ log[k].stage = "Emit" =>
                  /\ RanBefore(k, log[k].noise, "Aggregate",
                               eval_args.num_exps)
                  /\ \A i \in 0..(eval_args.num_exps - 1), st \in TrialStages :
                         RanBefore(k, log[k].noise, st, i)
\* Evaluate has finished every level with two trials each.
C15_Witness ==
    /\ pc = "done"
    /\ eval_args.num_exps = 2
    /\ Len(file) = Len(noise_levels) + 1
    /\ Len(log) = 12 * Len(noise_levels)
    /\ log[Len(log)].stage = "Emit"

\* C16: an estimator runs on the PointsData of a trial only after
\* GenerateRandom2D2DPoints has returned for that trial (and for every
\* trial of the level), and from there to the end of the level, past the
\* last estimate and error computation reading it, no dataset changes.
C16_DatasetsFixedOnceGenerated ==
    /\ [](\A k \in 1..Len(log) :
              log[k].stage \in {"EstimateCalibrated", "EstimateRefractive"}
                  => RanBefore(k, log[k].noise, "Generate", log[k].trial))
    /\ [](pc \in {"EstimateCalibrated", "ErrorCalibrated",
                  "EstimateRefractive", "ErrorRefractive", "Aggregate"}
              => Len(datasets) = eval_args.num_exps)
    /\ [][pc # "Emit" =>
              \A i \in 1..Len(datasets) :
                  i <= Len(datasets') /\ datasets'[i] = datasets[i]]_vars
\* The second trial's dataset of two levels has gone through both
\* estimators and the error of the refractive estimate is being computed.
C16_Witness ==
    /\ pc = "ErrorRefractive"
    /\ trial = 1
    /\ noise = 2
    /\ Len(datasets) = 2
    /\ Len(datasets[2].points2D1) = 1
    /\ estimate.num_inliers = 1

\* ---------------------------------------------------- errors of a trial
\* The camera centre of a pose, -R^T t, and the distance of two points in
\* millimetres.
CameraCentre(pose) ==
    Minus(Vec3([i \in 1..3 |->
              Sum3(Vec3([j \in 1..3 |->
                       Mul(pose.rotation[j][i], pose.translation[j])]))]))
Millimetres(a, b) ==
    LET diff == Plus(a, Minus(b))
    IN  Mul(Sqrt(Dot(diff, diff)), I(1000))

\* C17: the position error recorded for a trial of the refractive path is
\* the distance between the camera centres of the ground truth and of the
\* refractive estimate, both taken with the translation as it is; the
\* calibrated path compares with the ground-truth translation normalized.
C17_RefractiveErrorUnnormalized ==
    [][/\ pc = "ErrorRefractive" =>
              errors'.position_errors_refrac =
                  Append(errors.position_errors_refrac,
                         Millimetres(
                             CameraCentre(datasets[trial + 1].cam2_from_cam1_gt),
                             CameraCentre(estimate.cam2_from_cam1)))
       /\ pc = "ErrorCalibrated" =>
              errors'.position_errors =
                  Append(errors.position_errors,
                         Millimetres(
                             CameraCentre(
                                 Rigid3d(datasets[trial + 1].cam2_from_cam1_gt.rotation,
                                         Normalized(datasets[trial + 1].cam2_from_cam1_gt.translation))),
                             CameraCentre(estimate.cam2_from_cam1)))]_vars

\* ---------------------------------------------------------- termination
Starved == pc = "Sample" /\ gen.cnt < eval_args.num_points /\ ~Acceptable

\* C18: under a generator that keeps producing acceptable samples a
\* sampling loop that can accept ends, with exactly num_points accepted
\* samples; Evaluate ends unless it stays forever in a sampling loop in
\* which no sample is ever accepted, and such a loop never ends.
C18_OnlySamplingCanRunForever ==
    /\ (pc = "Sample" /\ Acceptable)
           ~> (pc = "Synthesize" /\ gen.cnt = eval_args.num_points
               /\ Len(gen.accepted) = eval_args.num_points)
    /\ <>[](pc = "done" \/ Starved)
    /\ [](Starved => [](Starved /\ gen.accepted = <<>>))
\* A sampling loop has ended after a rejection with two accepted samples.
C18_Witness ==
    /\ pc = "Synthesize"
    /\ eval_args.num_points = 2
    /\ gen.cnt = 2
    /\ gen.rejected >= 1
    /\ Len(gen.accepted) = 2

\* ------------------------------------------------------- failed estimates
\* The inlier-ratio sequence of the mode whose error is being recorded.
RatiosOf(stage) ==
    IF stage = "ErrorCalibrated" THEN "inlier_ratios"
    ELSE "inlier_ratios_refrac"

\* The step appends one entry to each sequence of its mode, the ratio
\* returned count / num_points among them, and moves to the next trial.
RecordsTrial ==
    /\ status' = "running"
    /\ trial' = trial + 1
    /\ \A k \in DOMAIN errors :
           Len(errors'[k]) =
               Len(errors[k])
               + (IF (pc = "ErrorRefractive")
                     = (k \in {"rotation_errors_refrac",
                               "position_errors_refrac",
                               "inlier_ratios_refrac"})
                  THEN 1 ELSE 0)
    /\ errors'[RatiosOf(pc)] =
           Append(errors[RatiosOf(pc)],
                  Div(I(estimate.num_inliers), I(eval_args.num_points)))

\* C19: whatever inlier count the estimator returned, zero included, the
\* trial is recorded and the run goes on: the step after an estimate
\* appends returned count / num_points to the inlier ratios of its mode
\* and one entry to each error sequence of its mode and moves to the next
\* trial, and at Aggregate each of the six sequences holds num_exps
\* entries.
C19_FailedEstimatesRecorded ==
    /\ [](pc = "Aggregate" =>
              \A k \in DOMAIN errors : Len(errors[k]) = eval_args.num_exps)
    /\ [][(pc \in {"ErrorCalibrated", "ErrorRefractive"})
              => RecordsTrial]_vars
\* A level of two trials reaches Aggregate with a calibrated and a
\* refractive estimate that had no inlier among its points.
C19_Witness ==
    /\ pc = "Aggregate"
    /\ eval_args.num_exps = 2
    /\ eval_args.num_points > 0
    /\ \E i, j \in 1..2 :
           /\ errors.inlier_ratios[i] = Zero
           /\ errors.inlier_ratios_refrac[j] = Zero

Header == "# noise_level rot_error_mean rot_error_std ..."
\* The estimator of the stage has run on trial i of the current level.
HasRun(stage, i) ==
    \E k \in 1..Len(log) :
        log[k] = [noise |-> noise, stage |-> stage, trial |-> i]
\* The step appends the row of the current level, after both estimators
\* have run on every trial of the level.
AppendsRow ==
    /\ Len(file') = Len(file) + 1
    /\ file'[Len(file')].noise = noise_levels[noise]
    /\ file'[Len(file')] = stats
    /\ \A i \in 0..(eval_args.num_exps - 1) :
           HasRun("EstimateCalibrated", i) /\ HasRun("EstimateRefractive", i)

\* C22: the report starts with the header line, holds while level n is
\* worked on the rows of the levels before n, in the order of the noise
\* levels, and when Evaluate returns one row per level; a step that
\* changes the report appends one row, after both estimators have run on
\* all num_exps trials of the level, and no step changes a line already
\* written.
C22_ReportRowPerLevel ==
    /\ [](pc # "Evaluate" =>
              /\ Len(file) = noise
              /\ file[1] = Header
              /\ \A k \in 2..Len(file) : file[k].noise = noise_levels[k - 1])
    /\ [](pc = "done" => Len(file) = Len(noise_levels) + 1)
    /\ [][(pc # "Evaluate" /\ file' # file) => AppendsRow]_vars
    /\ [][\A k \in 1..Len(file) : Len(file') >= k /\ file'[k] = file[k]]_vars
\* Evaluate has returned with the rows of two levels of two trials each.
C22_Witness ==
    /\ pc = "done"
    /\ eval_args.num_exps = 2
    /\ Len(file) = 3
    /\ file[2] # file[3]

\* ------------------------------------------------------ the estimator call
\* The dataset the estimate in hand was computed from.
EstimatedDataset == datasets[trial + 1]

\* C23: the estimate in hand comes from a call with the matches (i, i),
\* one for each of the N points of the dataset, of the calibrated
\* estimator on the plain pixel sequences with the camera for both views
\* in the calibrated loop, of the refractive estimator on the
\* refraction-corrected pixel sequences with the virtual cameras and
\* transforms of both views in the refractive loop, and it holds the pose
\* and the number of inlier matches of that estimator's answer.
C23_EstimatorCalledOnModeInputs ==
    pc \in {"ErrorCalibrated", "ErrorRefractive"} =>
        /\ Len(estimate.call.matches) = Len(EstimatedDataset.points2D1)
        /\ { estimate.call.matches[k] : k \in DOMAIN estimate.call.matches }
               = { <<i, i>> : i \in 0..(Len(EstimatedDataset.points2D1) - 1) }
        /\ pc = "ErrorCalibrated" =>
               /\ estimate.call.estimator = "EstimateCalibratedTwoViewGeometry"
               /\ estimate.call.camera1 = camera
               /\ estimate.call.camera2 = camera
               /\ estimate.call.points1 = EstimatedDataset.points2D1
               /\ estimate.call.points2 = EstimatedDataset.points2D2
        /\ pc = "ErrorRefractive" =>
               /\ estimate.call.estimator = "EstimateRefractiveTwoViewGeometry"
               /\ estimate.call.points1 = EstimatedDataset.points2D1_refrac
               /\ estimate.call.points2 = EstimatedDataset.points2D2_refrac
               /\ estimate.call.virtual_cameras1
                      = EstimatedDataset.virtual_cameras1
               /\ estimate.call.virtual_cameras2
                      = EstimatedDataset.virtual_cameras2
               /\ estimate.call.virtual_from_reals1
                      = EstimatedDataset.virtual_from_reals1
               /\ estimate.call.virtual_from_reals2
                      = EstimatedDataset.virtual_from_reals2
        /\ estimate.cam2_from_cam1 = estimate.two_view_geometry.cam2_from_cam1
        /\ estimate.num_inliers
               = Cardinality({ estimate.two_view_geometry.inlier_matches[k] :
                     k \in DOMAIN estimate.two_view_geometry.inlier_matches })
\* The refractive estimator has answered on a dataset of two points whose
\* plain and refraction-corrected pixels differ, with one inlier.
C23_Witness ==
    /\ pc = "ErrorRefractive"
    /\ Len(EstimatedDataset.points2D1) = 2
    /\ EstimatedDataset.points2D1 # EstimatedDataset.points2D1_refrac
    /\ estimate.num_inliers = 1

\* ------------------------------------------------- the camera of Evaluate
\* C24: no step of Evaluate changes the camera, which is in every state
\* the camera Evaluate was called with; between the trials the locals of
\* the generation call and of the estimation are gone, what a trial
\* leaves behind is its dataset and its error entries.
C24_CameraFixedDuringEvaluate ==
    /\ [](camera = last.pre /\ last.op = "Camera")
    /\ [][camera' = camera]_vars
    /\ [](pc \in {"Generate", "EstimateCalibrated", "EstimateRefractive",
                  "Aggregate", "Emit", "done"}
              => gen = NoGenerate /\ estimate = <<>>)
\* Evaluate has returned after two levels of trials with two points on a
\* refractive camera.
C24_Witness ==
    /\ pc = "done"
    /\ IsCameraRefractive(camera)
    /\ eval_args.num_points = 2
    /\ noise = Len(noise_levels) + 1

\* ------------------------------------------------- the Rescale overloads
\* C25: Rescale(scale) with scale > 0 on a camera of positive width and
\* height ends as Rescale(round(scale * width), round(scale * height)) on
\* that camera ends, in the same camera state and with the same outcome
\* (returned or died in a check); a completed Rescale(1) and a completed
\* Rescale(width, height) with the current size leave the camera as it
\* was.
C25_RescaleOverloadsAgree ==
    (last.op \in RescaleOps /\ last.pre.width_ > 0 /\ last.pre.height_ > 0) =>
        /\ (last.op = "Rescale(scale)" /\ Less(Zero, last.args.scale)) =>
               /\ camera =
                      RescaleTo(last.pre,
                                Round(Mul(last.args.scale,
                                          I(last.pre.width_))),
                                Round(Mul(last.args.scale,
                                          I(last.pre.height_)))).cam
               /\ (status = "running") =
                      RescaleTo(last.pre,
                                Round(Mul(last.args.scale,
                                          I(last.pre.width_))),
                                Round(Mul(last.args.scale,
                                          I(last.pre.height_)))).ok
        /\ (Completed({"Rescale(scale)"}) /\ last.args.scale = One) =>
               camera = last.pre
        /\ (/\ Completed({"Rescale(width,height)"})
            /\ last.args.width = last.pre.width_
            /\ last.args.height = last.pre.height_) =>
               camera = last.pre
\* Rescale(scale) has completed on a camera with two focal lengths and a
\* principal point off the origin, with a rounded width ratio that is not
\* the scale.
C25_Witness ==
    /\ Completed({"Rescale(scale)"})
    /\ Len(FocalLengthIdxs(camera)) = 2
    /\ last.pre.width_ > 0
    /\ last.pre.height_ > 0
    /\ Div(I(camera.width_), I(last.pre.width_)) # last.args.scale
    /\ PrincipalPointX(last.pre) # Zero
    /\ camera # last.pre
\* Rescale(width, height) has completed with the size the camera had.
C25_SameSizeWitness ==
    /\ Completed({"Rescale(width,height)"})
    /\ last.args.width = last.pre.width_
    /\ last.args.height = last.pre.height_
    /\ last.pre.width_ > 0

\* ------------------------------------- intrinsic and refraction settings
IntrinsicOps ==
    {"SetModelId", "SetModelIdFromName", "SetParamsFromString",
     "InitializeWithId"}
RefractionOps ==
    {"SetRefracModelId", "SetRefracModelIdFromName",
     "SetRefracParamsFromString"}

\* C26: the calls that select or fill the intrinsic model leave the
\* refraction model id and the refraction parameters as they were, the
\* calls that select or fill the refraction model leave the intrinsic model
\* id, the intrinsic parameters, the width and the height as they were; a
\* default-constructed camera is not refractive, and no call makes a
\* refractive camera non-refractive.
C26_IntrinsicsAndRefractionIndependent ==
    /\ [](last.op \in IntrinsicOps =>
              /\ camera.refrac_model_id_ = last.pre.refrac_model_id_
              /\ camera.refrac_params_ = last.pre.refrac_params_)
    /\ [](last.op \in RefractionOps =>
              /\ camera.model_id_ = last.pre.model_id_
              /\ camera.params_ = last.pre.params_
              /\ camera.width_ = last.pre.width_
              /\ camera.height_ = last.pre.height_)
    /\ [](last.op = "Camera" => ~IsCameraRefractive(camera))
    /\ [][IsCameraRefractive(camera) => IsCameraRefractive(camera')]_vars
\* A refraction variant with more parameters than the intrinsic vector
\* holds has been selected on a camera with assigned intrinsics, and an
\* intrinsic model has been selected afterwards.
C26_Witness ==
    /\ Completed({"SetModelId", "SetModelIdFromName"})
    /\ IsCameraRefractive(last.pre)
    /\ Len(last.pre.refrac_params_) > Len(last.pre.params_)
    /\ Len(camera.params_) # Len(last.pre.params_)
    /\ Len(last.pre.params_) > 0

\* ------------------------------------------------------------ testbed
\* Registration of extra images next to registered neighbours
\* (colmap/tools/testbed.cc).  The reconstruction is a function from the
\* ids of its images to [registered, cam_from_world]; the database gives
\* each image id its prior pose.

\* Largest image id of the reconstructions explored.
MaxImageId == 4
\* "No neighbor images found" lines recorded on the console.
MaxNoNeighborLines == 2

\* Rigid3d: Inverse and operator*.
Transposed(R) == Vec3([i \in 1..3 |-> Vec3([j \in 1..3 |-> R[j][i]])])
MatMul(A, B) == Transposed(Vec3([j \in 1..3 |-> Rotate(A, Transposed(B)[j])]))
Inverse(b_from_a) ==
    Only({ Rigid3d(Rt, Minus(Rotate(Rt, b_from_a.translation)))
           : Rt \in {Transposed(b_from_a.rotation)} })
Compose(c_from_b, b_from_a) ==
    Rigid3d(MatMul(c_from_b.rotation, b_from_a.rotation),
            Plus(c_from_b.translation,
                 Rotate(c_from_b.rotation, b_from_a.translation)))

\* Reconstruction: ExistsImage, IsImageRegistered, AddImage, RegisterImage.
ExistsImage(r, image_id) == image_id \in DOMAIN r
IsImageRegistered(r, image_id) == r[image_id].registered
AddImage(r, image_id, image) ==
    [id \in DOMAIN r \cup {image_id} |-> IF id = image_id THEN image ELSE r[id]]
RegisterImage(r, image_id) == [r EXCEPT ![image_id].registered = TRUE]
RegImageIds(r) == { id \in DOMAIN r : r[id].registered }

\* A quarter turn about the optical axis.
QuarterTurn == <<<<Zero, I(-1), Zero>>, <<One, Zero, Zero>>, <<Zero, Zero, One>>>>

\* Database::ReadImage(image_id).CamFromWorldPrior(): the navigation prior
\* of each image.
CamFromWorldPrior(image_id) ==
    Rigid3d(IF image_id % 2 = 1 THEN QuarterTurn ELSE Rigid3dIdentity.rotation,
            <<I(image_id), Zero, One>>)

\* The pose image image_id has in a reconstruction read from disk.
ReadCamFromWorld(image_id) ==
    Rigid3d(IF image_id % 2 = 0 THEN QuarterTurn ELSE Rigid3dIdentity.rotation,
            <<Zero, I(2 * image_id), Zero>>)

\* The reconstructions read from disk with the extra image ids to add: each
\* id is absent, in the reconstruction and registered, in the
\* reconstruction without a pose, or an extra image.
TestbedInputs ==
    { [recon |-> [id \in { k \in 1..MaxImageId : kind[k] \in {"reg", "unreg"} }
                     |-> [registered |-> kind[id] = "reg",
                          cam_from_world |-> ReadCamFromWorld(id)]],
       extra_image_ids |-> { k \in 1..MaxImageId : kind[k] = "extra" }]
      : kind \in [1..MaxImageId -> {"absent", "reg", "unreg", "extra"}] }

\* The orders in which a range-for can visit an unordered_set.
IterationOrders(S) ==
    { order \in [1..Cardinality(S) -> S] :
          \A i, j \in 1..Cardinality(S) : order[i] = order[j] => i = j }

\* The for loop over extra_image_ids: the first id visited that has a
\* registered neighbour, the predecessor tried before the successor.
FindNeighbor_PredecessorOnly(r, order) ==
    LET Has(id) == ExistsImage(r, id - 1) /\ IsImageRegistered(r, id - 1)
        Found == { i \in DOMAIN order : Has(order[i]) }
    IN  IF Found = {}
        THEN [reg_image_id |-> 0, ref_image_id |-> 0]
        ELSE LET image_id == order[CHOOSE i \in Found : \A j \in Found : i <= j]
             IN  [reg_image_id |-> image_id, ref_image_id |-> image_id - 1]
FindNeighbor(r, order) ==
    LET Before(id) == ExistsImage(r, id - 1) /\ IsImageRegistered(r, id - 1)
        After(id) == ExistsImage(r, id + 1) /\ IsImageRegistered(r, id + 1)
        Found == { i \in DOMAIN order : Before(order[i]) \/ After(order[i]) }
    IN  IF Found = {}
        THEN [reg_image_id |-> 0, ref_image_id |-> 0]
        ELSE LET image_id == order[CHOOSE i \in Found : \A j \in Found : i <= j]
             IN  [reg_image_id |-> image_id,
                  ref_image_id |-> IF Before(image_id) THEN image_id - 1
                                   ELSE image_id + 1]

\* The pose given to the image being registered.
RegisteredPose_WorldFirst(reg_prior, ref_prior, ref_cam_from_world) ==
    Only({ Compose(ref_cam_from_world, reg_from_ref)
           : reg_from_ref \in {Compose(reg_prior, Inverse(ref_prior))} })
RegisteredPose(reg_prior, ref_prior, ref_cam_from_world) ==
    Only({ Compose(reg_from_ref, ref_cam_from_world)
           : reg_from_ref \in {Compose(reg_prior, Inverse(ref_prior))} })

\* The lines written to the console.
NoNeighbor == "No neighbor images found in the reconstruction"
Registering == "Registering image"

\* main up to the loop: the reconstruction and the extra image ids.
ReadReconstruction ==
    /\ testbed = "idle"
    /\ \E input \in TestbedInputs :
           /\ recon' = input.recon
           /\ extra_image_ids' = input.extra_image_ids
    /\ testbed' = "loop"
    /\ UNCHANGED <<camVars, virtVars, harnessVars, console, output>>

\* One iteration of the while loop.
RegisterIteration ==
    /\ testbed = "loop"
    /\ extra_image_ids # {}
    /\ \E order \in IterationOrders(extra_image_ids) :
           LET found == FindNeighbor(recon, order)
               reg_image_id == found.reg_image_id
               ref_image_id == found.ref_image_id
           IN  IF \/ reg_image_id = ref_image_id
                  \/ reg_image_id = 0
                  \/ ref_image_id = 0
               THEN /\ Len(SelectSeq(console, LAMBDA l : l.line = NoNeighbor))
                           < MaxNoNeighborLines
                    /\ console' = Append(console, [line |-> NoNeighbor])
                    /\ UNCHANGED <<recon, extra_image_ids>>
               ELSE /\ console' = Append(console,
                                         [line |-> Registering,
                                          reg_image_id |-> reg_image_id,
                                          ref_image_id |-> ref_image_id])
                    /\ recon' =
                           RegisterImage(
                               AddImage(recon, reg_image_id,
                                        [registered |-> TRUE,
                                         cam_from_world |->
                                             RegisteredPose(
                                                 CamFromWorldPrior(reg_image_id),
                                                 CamFromWorldPrior(ref_image_id),
                                                 recon[ref_image_id]
                                                     .cam_from_world)]),
                               reg_image_id)
                    /\ extra_image_ids' = extra_image_ids \ {reg_image_id}
    /\ UNCHANGED <<camVars, virtVars, harnessVars, testbed, output>>

\* The loop has ended: recon.WriteText.
WriteText ==
    /\ testbed = "loop"
    /\ extra_image_ids = {}
    /\ output' = recon
    /\ testbed' = "done"
    /\ UNCHANGED <<camVars, virtVars, harnessVars, recon, extra_image_ids,
                   console>>

InitTestbed == Init

NextTestbed ==
    \/ ReadReconstruction
    \/ RegisterIteration
    \/ WriteText

SpecTestbed == InitTestbed /\ [][NextTestbed]_vars

\* The testbed has a next step: main has not started, the loop has ended
\* and the reconstruction is not written, an iteration can register an
\* image, or it can still record that it found no neighbour.
CanRegister ==
    \E order \in IterationOrders(extra_image_ids) :
        LET found == FindNeighbor(recon, order)
        IN  ~ \/ found.reg_image_id = found.ref_image_id
              \/ found.reg_image_id = 0
              \/ found.ref_image_id = 0
TestbedRunning ==
    \/ testbed = "idle"
    \/ /\ testbed = "loop"
       /\ \/ extra_image_ids = {}
          \/ CanRegister
          \/ Len(SelectSeq(console, LAMBDA l : l.line = NoNeighbor))
                 < MaxNoNeighborLines

\* The fair testbed: main runs on as long as it has a next step (weak
\* fairness of NextTestbed, with its enabling condition written out).
SpecTestbedFair ==
    SpecTestbed /\ ([]<>~TestbedRunning \/ []<><<NextTestbed>>_vars)

\* The ids the console reports as registered, the images registered and the
\* extra image ids when the loop was entered.
ReportedIds ==
    { console[i].reg_image_id
      : i \in { j \in DOMAIN console : console[j].line = Registering } }
InitiallyRegistered == RegImageIds(recon) \ ReportedIds
InitiallyPending == extra_image_ids \cup ReportedIds

\* A chain of ids differing by 1, all pending or registered, joins image_id
\* to an initially registered image.
Connected(image_id) ==
    \E ref \in InitiallyRegistered :
        \A id \in (IF image_id < ref THEN image_id..ref ELSE ref..image_id) :
            id \in InitiallyPending \cup InitiallyRegistered
AllConnected == \A image_id \in InitiallyPending : Connected(image_id)

\* No extra image id has a registered neighbour.
NoNeighborFound ==
    /\ testbed = "loop"
    /\ extra_image_ids # {}
    /\ \A id \in extra_image_ids :
           \A ref \in {id - 1, id + 1} :
               ~(ExistsImage(recon, ref) /\ IsImageRegistered(recon, ref))

\* The step registers exactly one extra image and erases exactly its id.
RegistersOne ==
    \E id \in extra_image_ids :
        /\ extra_image_ids' = extra_image_ids \ {id}
        /\ DOMAIN recon' = DOMAIN recon \cup {id}
        /\ RegImageIds(recon') = RegImageIds(recon) \cup {id}
        /\ id \notin RegImageIds(recon)
        /\ \A other \in DOMAIN recon \ {id} : recon'[other] = recon[other]

\* C27: every iteration of the registration loop either registers exactly one
\* pending extra image and erases exactly that id from the pending set, or
\* leaves the reconstruction and the pending set as they were; the loop ends
\* exactly when every pending id is joined to an initially registered image
\* by a chain of ids differing by 1 whose members are all pending or
\* registered, and otherwise it ends up repeating the iteration that changes
\* nothing.
C27_LoopTerminatesIffConnected ==
    /\ [][(testbed = "loop" /\ extra_image_ids # {}) =>
              \/ RegistersOne /\ UNCHANGED <<testbed, output>>
              \/ UNCHANGED <<testbed, recon, extra_image_ids, output>>]_vars
    /\ [](testbed = "done" => AllConnected)
    /\ [](testbed = "loop" /\ AllConnected => <>(testbed = "done"))
    /\ [](testbed = "loop" /\ ~AllConnected => <>[]NoNeighborFound)
\* After a registration the loop has twice found no neighbour for the ids
\* left.
C27_Witness ==
    /\ NoNeighborFound
    /\ ReportedIds # {}
    /\ Len(console) >= Cardinality(ReportedIds) + MaxNoNeighborLines

\* The loop has ended or no extra image id has a registered neighbour.
Quiescent == testbed = "done" \/ NoNeighborFound

\* The step registers image id against the reference image the console
\* names: a neighbour that is registered, whose pose followed by the prior
\* pose of id relative to the prior pose of the reference is the pose of id.
RegistersAgainstNeighbor ==
    \A id \in extra_image_ids \ extra_image_ids' :
        LET ref == console'[Len(console')].ref_image_id
        IN  /\ console'[Len(console')].reg_image_id = id
            /\ ref \in {id - 1, id + 1}
            /\ ExistsImage(recon, ref)
            /\ IsImageRegistered(recon, ref)
            /\ IsImageRegistered(recon', id)
            /\ \A world \in {ZeroVec, <<One, Zero, Zero>>, <<Zero, One, Zero>>,
                             <<Zero, Zero, One>>} :
                   Apply(recon'[id].cam_from_world, world)
                       = Apply(CamFromWorldPrior(id),
                               Apply(Inverse(CamFromWorldPrior(ref)),
                                     Apply(recon[ref].cam_from_world, world)))

\* C28: an extra image k is added and registered only when image k-1 or
\* image k+1 is in the reconstruction and registered, with the pose of that
\* reference image followed by the relative prior pose; id 0 is neither
\* registered nor used as reference; the set of registered images never
\* shrinks; and when the loop has ended or has nothing left to register, the
\* registered images are the initially registered ones and the connected
\* pending ones, whatever the order of iteration was.
C28_RegisteredNextToNeighbor ==
    /\ [][RegistersAgainstNeighbor]_vars
    /\ [](\A i \in DOMAIN console :
              console[i].line = Registering =>
                  console[i].reg_image_id # 0 /\ console[i].ref_image_id # 0)
    /\ [](0 \notin DOMAIN recon)
    /\ [][RegImageIds(recon) \subseteq RegImageIds(recon')]_vars
    /\ [](Quiescent =>
              RegImageIds(recon) =
                  InitiallyRegistered
                      \cup { id \in InitiallyPending : Connected(id) })
\* The loop has ended after registering image 1 against its successor and
\* another image against its predecessor.
C28_Witness ==
    /\ testbed = "done"
    /\ \E i, j \in DOMAIN console :
           /\ console[i].reg_image_id = 1
           /\ console[i].ref_image_id = 2
           /\ console[j].ref_image_id = console[j].reg_image_id - 1

====
